---- MODULE Spec2Model ----
(***************************************************************************)
(* Card generation pipeline of my-history-study-card: the orchestrator     *)
(* generate_cards (app/services/generate.py), the validation engine        *)
(* (app/services/validator.py), the oracle client (app/llm/client.py), the *)
(* file cache and the request rate limiter (app/routers/ai.py).            *)
(*                                                                         *)
(* Free text (content, highlights, labels, options, questions) is a        *)
(* sequence of tokens: a token is a word, a particle, a punctuation mark,  *)
(* " " or a number written out; Korean words are romanised.  Python's str  *)
(* methods are computed on these sequences.  A dict is a record; a key the *)
(* dict lacks is a field the record lacks.  An Optional value is a         *)
(* sequence of length 0 or 1.  List indices stored in cards (answer_index, *)
(* answer_order, card_index) are Python's, counted from 0.                 *)
(***************************************************************************)
EXTENDS Integers, Sequences, FiniteSets, TLC

VARIABLES
    clock,          \* time.time()
    cache,          \* the cache directory: key -> [stored_at, payload]
    content,        \* generate_cards arguments that make up the cache key
    highlights,
    types,
    focus_mode,
    force_refresh,  \* generate_cards arguments outside the cache key
    timeline,
    pc,             \* where the invocation of generate_cards stands
    facts,          \* local variables of generate_cards
    cards_payload,
    errors,
    totals,
    result,         \* what generate_cards returned or raised
    calls,          \* what this invocation has done so far (oracle calls, cache writes)
    rl_state,       \* _RATE_LIMIT_STATE: identity -> list of timestamps
    rl_lock,        \* _RATE_LIMIT_LOCK: its holder (0 when free) and the waiters in order
    rl_proc,        \* per request of the endpoint: where it stands, its key and its now,
                    \* and what generate_cards gave it
    rl_log          \* every timestamp ever recorded, per identity

pipeline_vars == <<cache, content, highlights, types, focus_mode, force_refresh, timeline,
                   pc, facts, cards_payload, errors, totals, result, calls>>
rl_vars == <<rl_state, rl_lock, rl_proc, rl_log>>
vars == <<clock, pipeline_vars, rl_vars>>

----------------------------------------------------------------------------
(* Python built-ins on dicts, lists and text *)

Has(d, key) == key \in DOMAIN d

Range(xs) == {xs[i] : i \in DOMAIN xs}

\* xs[:n]
Take(xs, n) == SubSeq(xs, 1, IF n < Len(xs) THEN n ELSE Len(xs))

\* xs.index(x) + 1, or 0 when x is not in xs
IndexOf(xs, x) ==
    IF \E i \in DOMAIN xs : xs[i] = x
    THEN CHOOSE i \in DOMAIN xs : xs[i] = x /\ \A j \in 1..(i - 1) : xs[j] # x
    ELSE 0

\* str.strip()
RECURSIVE LStrip(_)
LStrip(text) == IF text # <<>> /\ Head(text) \in {" ", "\n"} THEN LStrip(Tail(text)) ELSE text

RECURSIVE RStrip(_)
RStrip(text) ==
    IF text # <<>> /\ text[Len(text)] \in {" ", "\n"}
    THEN RStrip(SubSeq(text, 1, Len(text) - 1))
    ELSE text

Strip(text) == RStrip(LStrip(text))

\* str.lower() and str.upper(), token by token
LowerTok(tok) ==
    CASE tok = "Sejong" -> "sejong"
      [] tok = "Joseon" -> "joseon"
      [] tok = "Hangul" -> "hangul"
      [] tok = "Medium" -> "medium"
      [] OTHER -> tok

Lower(text) == [i \in DOMAIN text |-> LowerTok(text[i])]

Upper(word) ==
    CASE word = "mcq" -> "MCQ"
      [] word = "ox" -> "OX"
      [] word = "order" -> "ORDER"
      [] word = "match" -> "MATCH"
      [] word = "cloze" -> "CLOZE"
      [] OTHER -> word

\* pattern in text
Contains(text, pattern) ==
    \E i \in 0..(Len(text) - Len(pattern)) :
        SubSeq(text, i + 1, i + Len(pattern)) = pattern

\* str.splitlines()[0] of a text that is not empty
FirstLine(text) ==
    IF \E i \in DOMAIN text : text[i] = "\n"
    THEN SubSeq(text, 1, (CHOOSE i \in DOMAIN text :
                            text[i] = "\n" /\ \A j \in 1..(i - 1) : text[j] # "\n") - 1)
    ELSE text

\* d[key] = v and del d[key]
Put(d, key, v) == [k \in DOMAIN d \cup {key} |-> IF k = key THEN v ELSE d[k]]

Drop(d, key) == [k \in DOMAIN d \ {key} |-> d[k]]

\* d.get(key, default)
Get(d, key, default) == IF key \in DOMAIN d THEN d[key] ELSE default

\* list.sort(key=...): keys[i] is the pair the key function gives for xs[i]; the sort is stable
SortByKey(xs, keys) ==
    LET Before(i, j) == \/ keys[i][1] < keys[j][1]
                        \/ keys[i][1] = keys[j][1] /\ keys[i][2] < keys[j][2]
                        \/ keys[i] = keys[j] /\ i < j
        Rank(i) == 1 + Cardinality({j \in DOMAIN xs : Before(j, i)})
    IN [r \in DOMAIN xs |-> xs[CHOOSE i \in DOMAIN xs : Rank(i) = r]]

\* the strings of xs, stripped, without blanks and without case-insensitive repeats, at most cap
RECURSIVE CleanStrings(_, _, _)
CleanStrings(source, clean, cap) ==
    IF source = <<>> \/ Len(clean) >= cap THEN clean
    ELSE LET trimmed == Strip(Head(source))
         IN IF trimmed = <<>> \/ \E i \in DOMAIN clean : Lower(clean[i]) = Lower(trimmed)
            THEN CleanStrings(Tail(source), clean, cap)
            ELSE CleanStrings(Tail(source), Append(clean, trimmed), cap)

----------------------------------------------------------------------------
(* Settings *)

CacheTTL == 86400
RateLimitWindow == 30
RateLimitQuota == 3

----------------------------------------------------------------------------
(* generate_cards: arguments, cache key, cache *)

Difficulty == "Medium"

FocusModeNormalized == IF focus_mode \in {"highlight", "timeline"} THEN focus_mode ELSE "highlight"

\* types = types or ["MCQ"]; only the first entry counts, upper-cased
SingleType ==
    LET first == IF types = <<>> THEN "MCQ" ELSE Upper(types[1])
    IN IF FocusModeNormalized = "timeline"
          /\ first \notin {"MCQ", "SHORT", "OX", "CLOZE", "ORDER", "MATCH"}
       THEN "MCQ" ELSE first

_sanitize_highlights(source) ==
    IF FocusModeNormalized # "highlight" THEN <<>>
    ELSE CleanStrings(source, <<>>, IF SingleType # "MATCH" THEN 1 ELSE 10)

normalize_for_cache(c, hl, ts, diff, fm) ==
    [content |-> Strip(c),
     highlights |-> CleanStrings(hl, <<>>, Len(hl)),
     types |-> ts,
     difficulty |-> LowerTok(diff),
     focus_mode |-> fm]

\* sha256 of the sorted-key JSON text: one digest per normalized payload
hash_key(normalized_payload) == <<"sha256", normalized_payload>>

CacheKey ==
    hash_key(normalize_for_cache(content, _sanitize_highlights(highlights), <<SingleType>>,
                                 Difficulty, FocusModeNormalized))

\* _read_cache with the comparison of line 335 as >=: an entry whose age equals the TTL
\* is dropped
_read_cache_expires_early(key) ==
    IF key \notin DOMAIN cache THEN <<>>
    ELSE IF clock - cache[key].stored_at >= CacheTTL THEN <<>>
    ELSE <<cache[key].payload>>

\* Optional payload: the entry under key, unless there is none or it is older than the TTL
_read_cache(key) ==
    IF key \notin DOMAIN cache THEN <<>>
    ELSE IF clock - cache[key].stored_at > CacheTTL THEN <<>>
    ELSE <<cache[key].payload>>

\* _write_cache that leaves an entry that is there as it is
_write_cache_keeps_first(key, payload) ==
    IF key \in DOMAIN cache THEN cache
    ELSE [k \in DOMAIN cache \cup {key} |->
             IF k = key THEN [stored_at |-> clock, payload |-> payload] ELSE cache[k]]

\* the cache directory after _write_cache(key, payload)
_write_cache(key, payload) ==
    [k \in DOMAIN cache \cup {key} |->
        IF k = key THEN [stored_at |-> clock, payload |-> payload] ELSE cache[k]]

----------------------------------------------------------------------------
(* Fact extraction (app/llm/client.py) and the deterministic builders *)

\* usage reported by the oracle for one call of each stage
Usage ==
    [extract  |-> [tokens_in |-> 10, tokens_out |-> 20, latency_ms |-> 50],
     generate |-> [tokens_in |-> 30, tokens_out |-> 40, latency_ms |-> 60],
     fix      |-> [tokens_in |-> 6,  tokens_out |-> 6,  latency_ms |-> 6]]

NoUsage == [tokens_in |-> 0, tokens_out |-> 0, latency_ms |-> 0]

AddUsage(a, b) ==
    [tokens_in |-> a.tokens_in + b.tokens_in,
     tokens_out |-> a.tokens_out + b.tokens_out,
     latency_ms |-> a.latency_ms + b.latency_ms]

\* the {type, statement} facts of a raw list: dict entries with a statement that is not blank
RECURSIVE NormFacts(_)
NormFacts(raw_facts) ==
    IF raw_facts = <<>> THEN <<>>
    ELSE LET f == Head(raw_facts)
         IN (IF Has(f, "statement") /\ Strip(f.statement) # <<>>
             THEN <<[type |-> Get(f, "type", "fact"), statement |-> Strip(f.statement)]>>
             ELSE <<>>) \o NormFacts(Tail(raw_facts))

_normalize_extract_payload(payload, fallback_highlights) ==
    LET kept == SelectSeq(Get(payload, "entities", <<>>), LAMBDA e : Strip(e) # <<>>)
        stripped == [i \in DOMAIN kept |-> Strip(kept[i])]
        backfill == Take(SelectSeq([i \in DOMAIN fallback_highlights |-> Strip(fallback_highlights[i])],
                                   LAMBDA h : h # <<>>), 5)
    IN [entities |-> IF stripped = <<>> THEN backfill ELSE stripped,
        facts |-> NormFacts(Get(payload, "facts", <<>>)),
        timeline |-> Get(payload, "timeline", <<>>)]

_build_fallback_facts(hl, c) ==
    LET statements == CleanStrings(hl, <<>>, 3)
        snippet == Strip(c)
        first_line == IF snippet = <<>> THEN <<>> ELSE Strip(FirstLine(snippet))
        chosen == IF statements # <<>> THEN statements
                  ELSE IF first_line # <<>> THEN <<Take(first_line, 140)>> ELSE <<>>
    IN [i \in DOMAIN chosen |-> [type |-> "fact", statement |-> chosen[i]]]

\* aextract_facts without the raise of line 533: facts that are empty are handed on
aextract_facts_lenient(reply, c, hl) ==
    IF reply = <<>> THEN <<>>
    ELSE LET norm == _normalize_extract_payload(reply[1], hl)
             fallback_facts == _build_fallback_facts(hl, c)
         IN IF norm.facts # <<>> THEN <<norm>>
            ELSE <<[norm EXCEPT !.facts = fallback_facts]>>

\* reply is what _call_responses gave: <<>> when it raised, <<payload>> otherwise.
\* The value is <<>> when aextract_facts raises RuntimeError, <<facts>> otherwise.
aextract_facts(reply, c, hl) ==
    IF reply = <<>> THEN <<>>
    ELSE LET norm == _normalize_extract_payload(reply[1], hl)
             fallback_facts == _build_fallback_facts(hl, c)
         IN IF norm.facts # <<>> THEN <<norm>>
            ELSE IF fallback_facts # <<>> THEN <<[norm EXCEPT !.facts = fallback_facts]>>
            ELSE <<>>

\* timeline entries with a label that is not blank, label stripped
LabelledEvents(tl) ==
    LET kept == SelectSeq(tl, LAMBDA ev : Has(ev, "label") /\ Strip(ev.label) # <<>>)
    IN [i \in DOMAIN kept |-> [kept[i] EXCEPT !.label = Strip(kept[i].label)]]

\* (all_events, numeric_events)
_timeline_events(fs) ==
    LET all_events == LabelledEvents(Get(fs, "timeline", <<>>))
        numeric == SelectSeq(all_events, LAMBDA ev : Has(ev, "year"))
    IN <<all_events, SortByKey(numeric, [i \in DOMAIN numeric |-> <<0, numeric[i].year>>])>>

\* the events the caller supplied in timeline mode: those with an int year and a label
UserTimelineEvents(tl) ==
    LET kept == SelectSeq(tl, LAMBDA ev : Has(ev, "year") /\ Has(ev, "label") /\ Strip(ev.label) # <<>>)
    IN [i \in DOMAIN kept |-> [year |-> kept[i].year, label |-> Strip(kept[i].label)]]

RECURSIVE JoinArrow(_)
JoinArrow(parts) ==
    IF parts = <<>> THEN <<>>
    ELSE IF Len(parts) = 1 THEN parts[1]
    ELSE parts[1] \o <<" ", "->", " ">> \o JoinArrow(Tail(parts))

\* text.split(sep, 1): (subject, remainder), both stripped
SplitAt(work, sep) ==
    LET at == IndexOf(work, sep)
    IN <<Strip(SubSeq(work, 1, at - 1)), Strip(SubSeq(work, at + 1, Len(work)))>>

\* the keyword of _action_forms or the suffix of _split_label that a word is or begins with
ActionKeyword(tok) ==
    CASE tok \in {"changje", "changjehayeotda", "changjehaenna"} -> "changje"
      [] tok \in {"pyeonchan", "pyeonchanhayeotda"} -> "pyeonchan"
      [] tok \in {"banpo", "banpohayeotda"} -> "banpo"
      [] tok \in {"seollip", "seolliphayeotda"} -> "seollip"
      [] tok \in {"geonguk"} -> "geonguk"
      [] OTHER -> ""

\* (subject, action)
_split_label(label) ==
    LET work == Strip(label)
    IN IF work = <<>> THEN <<label, <<>>>>
       ELSE IF work \in {<<"hunminjeongeum", " ", "changje">>, <<"hunminjeongeum">>}
       THEN <<<<"hunminjeongeum">>, <<"changje">>>>
       ELSE IF work \in {<<"joseon", " ", "geonguk">>, <<"joseon">>}
       THEN <<<<"iseonggye">>, <<"joseon", "eul", " ", "geonguk">>>>
       ELSE IF IndexOf(work, " ") # 0 /\ SplitAt(work, " ")[1] # <<>> /\ SplitAt(work, " ")[2] # <<>>
       THEN SplitAt(work, " ")
       ELSE IF IndexOf(work, "-") # 0 /\ SplitAt(work, "-")[1] # <<>> /\ SplitAt(work, "-")[2] # <<>>
       THEN SplitAt(work, "-")
       ELSE IF Len(work) > 1 /\ ActionKeyword(work[Len(work)]) = work[Len(work)]
               /\ Strip(SubSeq(work, 1, Len(work) - 1)) # <<>>
       THEN <<Strip(SubSeq(work, 1, Len(work) - 1)), <<work[Len(work)]>>>>
       ELSE <<work, <<>>>>

_action_forms(action) ==
    LET keywords == {ActionKeyword(action[i]) : i \in DOMAIN action}
        forms(past, done) == [question |-> <<past, " ", "yeondo", "neun", "?">>,
                              statement |-> <<done, ".">>, cloze |-> <<done, ".">>]
    IN IF "changje" \in keywords THEN forms("changjehan", "changjehayeotda")
       ELSE IF "pyeonchan" \in keywords THEN forms("pyeonchandoen", "pyeonchandoeeotda")
       ELSE IF "banpo" \in keywords THEN forms("banpodoen", "banpodoeeotda")
       ELSE IF "seollip" \in keywords THEN forms("seollipdoen", "seollipdoeeotda")
       ELSE IF "geonguk" \in keywords THEN forms("geongukdoen", "geongukdoeeotda")
       ELSE [question |-> <<"myeot", " ", "nyeone", " ", "ireonatseumnikka", "?">>,
             statement |-> <<"ireonatda", ".">>, cloze |-> <<"ireonatda", ".">>]

\* "eun" after a final consonant, "neun" after a vowel
_topic_particle(text) ==
    IF text # <<>> /\ text[Len(text)] \in {"iseonggye", "changje", "banpo", "goguryeo"}
    THEN "neun" ELSE "eun"

\* Optional card built from the first event; MCQ, OX and CLOZE are the types the model
\* requests in timeline mode besides ORDER and MATCH, for which there is no builder here
_timeline_card_from_events(card_type, events) ==
    IF events = <<>> \/ Strip(events[1].label) = <<>> THEN <<>>
    ELSE LET year == events[1].year
             label == Strip(events[1].label)
             explain == <<ToString(year), " ">> \o label
             subject == _split_label(label)[1]
             action == _split_label(label)[2]
             forms == _action_forms(action)
             display_subject == IF action # <<>> THEN subject ELSE label
             candidates == SelectSeq(<<year + 1, year - 1, year + 2, year - 2, year + 3, year - 3>>,
                                     LAMBDA candidate : candidate > 0)
             ox_subject == IF display_subject = <<"hunminjeongeum">>
                           THEN <<"sejongdaewang">> ELSE display_subject
             object_particle == IF display_subject = <<"hunminjeongeum">>
                                THEN "eul" ELSE _topic_particle(display_subject)
         IN IF card_type = "MCQ"
            THEN <<[type |-> "MCQ",
                    question |-> display_subject \o <<_topic_particle(display_subject), " ">>
                                 \o forms.question,
                    options |-> <<<<ToString(year)>>>>
                                \o [i \in 1..2 |-> <<ToString(candidates[i])>>],
                    answer_index |-> 0,
                    explain |-> explain]>>
            ELSE IF card_type = "OX"
            THEN <<[type |-> "OX",
                    statement |-> ox_subject \o <<_topic_particle(ox_subject), " ",
                                                  ToString(year), "nyeone", " ">>
                                  \o display_subject \o <<object_particle, " ">>
                                  \o forms.statement,
                    answer |-> TRUE,
                    explain |-> explain]>>
            ELSE IF card_type = "CLOZE"
            THEN <<[type |-> "CLOZE",
                    text |-> ox_subject \o <<_topic_particle(ox_subject), " ",
                                             "{{c1}}", "nyeone", " ">>
                             \o display_subject \o <<object_particle, " ">> \o forms.cloze,
                    clozes |-> [c1 |-> <<ToString(year)>>],
                    explain |-> explain]>>
            ELSE <<>>

\* lines 1124-1130 of generate_cards: the MATCH card of timeline mode, years against labels
\* (the labels of the model are shorter than 32 characters)
TimelineMatchCard(numeric_events) ==
    LET events4 == Take(numeric_events, 4)
    IN [type |-> "MATCH",
        left |-> [i \in DOMAIN events4 |-> <<ToString(events4[i].year)>>],
        right |-> [i \in DOMAIN events4 |-> events4[i].label],
        pairs |-> [i \in DOMAIN events4 |-> <<i - 1, i - 1>>],
        explain |-> <<"yeonpyo", "ui", " ", "yeondo", "-", "sageon", " ", "maeching", ".">>]

\* Optional ORDER card
_order_from_timeline(fs) ==
    LET events == LabelledEvents(Get(fs, "timeline", <<>>))
        keys == [i \in DOMAIN events |->
                    IF Has(events[i], "year")
                    THEN <<0, IF events[i].year # 0 THEN events[i].year ELSE 999999>>
                    ELSE <<1, 999999>>]
        sorted == SortByKey(events, keys)
        parts == [i \in DOMAIN sorted |->
                    IF Has(sorted[i], "year") /\ sorted[i].year # 0
                    THEN <<ToString(sorted[i].year), "nyeone", " ">> \o sorted[i].label
                    ELSE sorted[i].label]
    IN IF Len(events) < 2 THEN <<>>
       ELSE <<[type |-> "ORDER",
               items |-> [i \in DOMAIN sorted |-> sorted[i].label],
               answer_order |-> [i \in DOMAIN sorted |-> i - 1],
               explain |-> JoinArrow(parts) \o <<" ", "sunseoro", " ", "ireonatseumnida", ".">>]>>

shrink_for_type(fs, card_type) ==
    LET eN == CASE card_type \in {"OX", "SHORT", "CLOZE"} -> 2
                [] card_type = "MATCH" -> 4
                [] OTHER -> 3
        sN == CASE card_type \in {"ORDER", "MATCH"} -> 3
                [] card_type = "CLOZE" -> 1
                [] OTHER -> 2
        stmts == SelectSeq(Get(fs, "facts", <<>>), LAMBDA f : Has(f, "statement") /\ f.statement # <<>>)
    IN [entities |-> Take(Get(fs, "entities", <<>>), eN),
        facts |-> [i \in 1..(IF sN < Len(stmts) THEN sN ELSE Len(stmts)) |->
                      [statement |-> stmts[i].statement]]]

----------------------------------------------------------------------------
(* Cards: structure normalization and field whitelist (app/services/generate.py) *)

(***************************************************************************)
(* JSON values where the code expects a list index (the entries of         *)
(* answer_order and of a pair): the integer n, the string of the digits of *)
(* n, null, or the list [n].  The list holds n; the card's field           *)
(* answer_order_kinds or pairs_kinds holds the kind ("int", "str", "null", *)
(* "list") at the same position; a card without it has integers only.     *)
(***************************************************************************)
\* {{cN}} in a CLOZE text is one token
PlaceholderKey(tok) ==
    CASE tok = "{{c1}}" -> "c1"
      [] tok = "{{c2}}" -> "c2"
      [] tok = "{{c3}}" -> "c3"
      [] OTHER -> ""

\* re.findall(r"\{\{(c\d+)\}\}", text)
Placeholders(text) ==
    LET found == SelectSeq(text, LAMBDA tok : PlaceholderKey(tok) # "")
    IN [i \in DOMAIN found |-> PlaceholderKey(found[i])]

OrderKinds(card) ==
    Get(card, "answer_order_kinds", [i \in DOMAIN Get(card, "answer_order", <<>>) |-> "int"])

PairKinds(card) ==
    Get(card, "pairs_kinds",
        [i \in DOMAIN Get(card, "pairs", <<>>) |-> [j \in DOMAIN card.pairs[i] |-> "int"]])

\* ensure_left and ensure_right: <<the items, the index or -1 for None>>
EnsureItem(items, kind, n) ==
    IF kind = "int" THEN <<items, IF 0 <= n /\ n < Len(items) THEN n ELSE -1>>
    ELSE IF kind = "str"
    THEN IF IndexOf(items, <<ToString(n)>>) # 0 THEN <<items, IndexOf(items, <<ToString(n)>>) - 1>>
         ELSE IF Len(items) >= 4 THEN <<items, -1>>
         ELSE <<Append(items, <<ToString(n)>>), Len(items)>>
    ELSE <<items, -1>>

\* lines 497-527: the pairs that are lists of two entries, entries resolved to indices, pairs
\* with an entry already used dropped, at most four
RECURSIVE NormPairs(_, _, _, _, _)
NormPairs(pairs, kinds, left_items, right_items, normalized_pairs) ==
    IF pairs = <<>> \/ Len(normalized_pairs) >= 4
    THEN [left |-> left_items, right |-> right_items, pairs |-> normalized_pairs]
    ELSE IF Len(Head(pairs)) # 2
    THEN NormPairs(Tail(pairs), Tail(kinds), left_items, right_items, normalized_pairs)
    ELSE LET l == EnsureItem(left_items, Head(kinds)[1], Head(pairs)[1])
             r == EnsureItem(right_items, Head(kinds)[2], Head(pairs)[2])
             used == l[2] = -1 \/ r[2] = -1
                     \/ \E i \in DOMAIN normalized_pairs :
                           normalized_pairs[i][1] = l[2] \/ normalized_pairs[i][2] = r[2]
         IN NormPairs(Tail(pairs), Tail(kinds), l[1], r[1],
                      IF used THEN normalized_pairs ELSE Append(normalized_pairs, <<l[2], r[2]>>))

\* the dict {} that _normalize_card_structure gives for a raw card that is no dict:
\* card.get("type") is None
EmptyCard == [type |-> "None"]

\* A raw card that is not a JSON object carries the type "notobject" in the model.
_normalize_card_structure(raw_card) ==
    IF raw_card.type = "notobject" THEN EmptyCard
    ELSE IF raw_card.type = "MCQ" THEN
        LET card1 == Drop(raw_card, "answer")
            answer_text == Get(raw_card, "answer", <<>>)
            options == [i \in DOMAIN raw_card.options |-> Strip(raw_card.options[i])]
            card2 == IF answer_text # <<>> /\ Has(raw_card, "options")
                     THEN IF IndexOf(options, answer_text) # 0
                          THEN Put(card1, "answer_index", IndexOf(options, answer_text) - 1)
                          ELSE Put(Put(card1, "options", Append(options, answer_text)),
                                   "answer_index", Len(options))
                     ELSE card1
            card3 == Drop(card2, "explanation")
        IN IF Get(card2, "explanation", <<>>) # <<>> /\ ~Has(card2, "explain")
           THEN Put(card3, "explain", card2.explanation)
           ELSE card3
    ELSE IF raw_card.type = "ORDER" THEN
        LET card1 == Drop(raw_card, "answers")
            card2 == IF Has(raw_card, "answers") /\ ~Has(raw_card, "items")
                     THEN Put(card1, "items", raw_card.answers)
                     ELSE card1
        IN IF ~Has(card2, "answer_order") /\ Has(card2, "items")
           THEN Put(card2, "answer_order", [i \in DOMAIN card2.items |-> i - 1])
           ELSE card2
    ELSE IF raw_card.type = "CLOZE" THEN
        LET card1 == IF Has(raw_card, "question") /\ ~Has(raw_card, "text")
                     THEN Put(Drop(raw_card, "question"), "text", raw_card.question)
                     ELSE raw_card
            placeholders == Placeholders(Get(card1, "text", <<>>))
            \* lines 421-431: the value for the placeholder at position n (counted from 1)
            Value(n) ==
                LET value == IF n <= Len(Get(card1, "answers", <<>>)) THEN card1.answers[n]
                             ELSE IF Has(card1, "answer") THEN card1.answer
                             ELSE IF Get(card1, "rubric.aliases", <<>>) # <<>>
                             THEN card1["rubric.aliases"][1]
                             ELSE <<>>
                IN IF Strip(value) = <<>> THEN <<>> ELSE value
            RECURSIVE Filled(_, _)
            Filled(n, clozes) ==
                IF n > Len(placeholders) THEN clozes
                ELSE Filled(n + 1,
                            IF Strip(Get(clozes, placeholders[n], <<>>)) # <<>> THEN clozes
                            ELSE IF Value(n) # <<>> THEN Put(clozes, placeholders[n], Value(n))
                            ELSE IF Has(clozes, placeholders[n]) THEN clozes
                            ELSE Put(clozes, placeholders[n], <<>>))
        IN Put(Drop(Drop(Drop(card1, "answers"), "answer"), "rubric.aliases"),
               "clozes", Filled(1, Get(card1, "clozes", <<>>)))
    ELSE IF raw_card.type = "MATCH" THEN
        LET \* lines 451-467: the items stripped, without blanks and repeats, at most four
            RECURSIVE Unique(_, _)
            Unique(raw, kept) ==
                IF raw = <<>> THEN kept
                ELSE Unique(Tail(raw),
                            IF Strip(Head(raw)) = <<>> \/ IndexOf(kept, Strip(Head(raw))) # 0
                               \/ Len(kept) >= 4
                            THEN kept ELSE Append(kept, Strip(Head(raw))))
            Items(raw) == Unique(raw, <<>>)
            norm == NormPairs(Get(raw_card, "pairs", <<>>), PairKinds(raw_card),
                              Items(Get(raw_card, "left", <<>>)),
                              Items(Get(raw_card, "right", <<>>)), <<>>)
        IN Put(Put(Put(Drop(raw_card, "pairs_kinds"), "left", Take(norm.left, 4)),
                   "right", Take(norm.right, 4)), "pairs", norm.pairs)
    ELSE raw_card

\* The fields answer_order_kinds and pairs_kinds are no fields of the JSON object: they say
\* what the entries of answer_order and pairs are, and stay with these.
_sanitize_by_type(card) ==
    LET allowed == CASE card.type = "MCQ" -> {"type", "question", "options", "answer_index", "explain"}
                     [] card.type = "SHORT" -> {"type", "prompt", "answer", "rubric"}
                     [] card.type = "OX" -> {"type", "statement", "answer", "explain"}
                     [] card.type = "CLOZE" -> {"type", "text", "clozes", "explain"}
                     [] card.type = "ORDER" -> {"type", "items", "answer_order", "explain",
                                                "answer_order_kinds"}
                     [] card.type = "MATCH" -> {"type", "left", "right", "pairs", "explain",
                                                "pairs_kinds"}
                     [] OTHER -> {}
    IN IF allowed = {} THEN card
       ELSE [key \in DOMAIN card \cap allowed |-> card[key]]

----------------------------------------------------------------------------
(* Validation engine (app/services/validator.py) *)

\* _canon: whitespace removed, lower-cased, aliases folded, separators removed
_canon(value) ==
    LET v == Lower(SelectSeq(value, LAMBDA tok : tok \notin {" ", "\n"}))
    IN IF v \in {<<"hunminjeongeum">>, <<"hangul">>} THEN <<"hunminjeongeum">>
       ELSE SelectSeq(v, LAMBDA tok : tok \notin {"-", "_"})

\* the verb stem a word contains, out of the stems the explain pattern looks for
VerbStem(tok) ==
    CASE tok \in {"changje", "changjehayeotda", "changjehaenna"} -> "changje"
      [] tok \in {"pyeonchan", "pyeonchanhayeotda"} -> "pyeonchan"
      [] tok \in {"banpo", "banpohayeotda"} -> "banpo"
      [] tok \in {"seollip", "seolliphayeotda"} -> "seollip"
      [] OTHER -> ""

Particles == {"eul", "reul", "i", "ga", "neun", "eun"}

NotAWord == Particles \cup {" ", "\n", ".", "?", "->", "-", "_"}

\* re.findall(<word><particle>\s*<verb stem>, explain)[:1]: the first word that is directly
\* followed by a particle and then, after optional blanks, by one of the verb stems
ExplainAnswer(explain) ==
    LET Next1(i) == IF i + 2 <= Len(explain) /\ explain[i + 2] # " " THEN i + 2
                    ELSE IF i + 3 <= Len(explain) /\ explain[i + 2] = " " THEN i + 3 ELSE 0
        Match(i) == /\ explain[i] \notin NotAWord
                    /\ i + 1 <= Len(explain) /\ explain[i + 1] \in Particles
                    /\ Next1(i) # 0 /\ VerbStem(explain[Next1(i)]) # ""
        hits == {i \in DOMAIN explain : Match(i)}
    IN IF hits = {} THEN <<>>
       ELSE <<explain[CHOOSE i \in hits : \A j \in hits : i <= j]>>

\* any(pattern in question for pattern in unnatural_patterns)
UnnaturalQuestion(question) ==
    \E i \in DOMAIN question :
        \/ question[i] = "mueosinga"
        \/ question[i] \in {"ran", "iran"} /\ i < Len(question) /\ question[i + 1] = "?"

\* "jadong saengseong" in opt or "odap" in opt
IsFiller(opt) == Contains(opt, <<"jadong", " ", "saengseong">>) \/ Contains(opt, <<"odap">>)

Err(code, idx) == [code |-> code, card_index |-> idx]

\* _validate_mcq without the comparison of line 125: no option chosen is taken for a mismatch
AnswerMismatch_unchecked(explain_answer, selected_option) == FALSE

\* line 125: the answer that the explanation names is not the option chosen, under _canon
AnswerMismatch(explain_answer, selected_option) ==
    _canon(<<explain_answer>>) # _canon(selected_option)

_validate_mcq(card, idx) ==
    LET options == Get(card, "options", <<>>)
        normalized == [i \in DOMAIN options |-> Strip(options[i])]
        explain == Strip(Get(card, "explain", <<>>))
        question == Strip(Get(card, "question", <<>>))
        in_range == Has(card, "answer_index") /\ 0 <= card.answer_index
                    /\ card.answer_index < Len(normalized)
        \* seen[key]: the first index that recorded the key of option i
        first_like(i) == CHOOSE j \in 1..i : /\ _canon(normalized[j]) = _canon(normalized[i])
                                             /\ \A k \in 1..(j - 1) :
                                                  _canon(normalized[k]) # _canon(normalized[i])
        per_option(code) ==
            [i \in DOMAIN normalized |->
                IF code = "mcq_option_filler" /\ IsFiller(normalized[i])
                THEN <<[code |-> code, card_index |-> idx, meta |-> [option_index |-> i - 1]]>>
                ELSE IF code = "mcq_option_semantic_duplicate" /\ first_like(i) # i
                THEN <<[code |-> code, card_index |-> idx,
                        meta |-> [duplicate_of |-> first_like(i) - 1, option_index |-> i - 1]]>>
                ELSE <<>>]
        Flat(parts) == LET RECURSIVE F(_)
                           F(n) == IF n = 0 THEN <<>> ELSE F(n - 1) \o parts[n]
                       IN F(Len(parts))
    IN IF Len(options) < 3 THEN <<Err("mcq_options_length", idx)>>
       ELSE (IF \E i \in DOMAIN normalized : normalized[i] = <<>>
             THEN <<Err("mcq_option_empty", idx)>> ELSE <<>>)
         \o (IF Cardinality(Range(normalized)) # Len(normalized)
             THEN <<Err("mcq_option_duplicate", idx)>> ELSE <<>>)
         \o Flat(per_option("mcq_option_filler"))
         \o Flat(per_option("mcq_option_semantic_duplicate"))
         \o (IF ~in_range THEN <<Err("mcq_answer_index", idx)>> ELSE <<>>)
         \o (IF explain # <<>> /\ in_range /\ ExplainAnswer(explain) # <<>>
                /\ AnswerMismatch(ExplainAnswer(explain)[1], normalized[card.answer_index + 1])
             THEN <<[code |-> "mcq_answer_mismatch", card_index |-> idx,
                     meta |-> [explain_answer |-> ExplainAnswer(explain)[1],
                               selected_option |-> normalized[card.answer_index + 1]]]>>
             ELSE <<>>)
         \o (IF question # <<>> /\ UnnaturalQuestion(question)
             THEN <<[code |-> "mcq_unnatural_question", card_index |-> idx,
                     meta |-> [question |-> question]]>>
             ELSE <<>>)

_validate_ox(card, idx) ==
    IF Strip(Get(card, "statement", <<>>)) = <<>> THEN <<Err("ox_statement", idx)>> ELSE <<>>

\* _validate_order comparing set(order) with set(range(len(items))) in line 241
_validate_order_as_sets(card, idx) ==
    LET items == Get(card, "items", <<>>)
        order == Get(card, "answer_order", <<>>)
    IN IF items = <<>> \/ order = <<>> THEN <<Err("order_missing", idx)>>
       ELSE IF Range(OrderKinds(card)) # {"int"} \/ Range(order) # 0..(Len(items) - 1)
       THEN <<Err("order_not_permutation", idx)>>
       ELSE <<>>

\* sorted(order) where order holds entries of one kind only; the entries of a list that
\* validate_raises does not single out
_validate_order(card, idx) ==
    LET items == Get(card, "items", <<>>)
        order == Get(card, "answer_order", <<>>)
    IN IF items = <<>> \/ order = <<>> THEN <<Err("order_missing", idx)>>
       ELSE IF Range(OrderKinds(card)) # {"int"}
               \/ Len(order) # Len(items) \/ Range(order) # 0..(Len(items) - 1)
       THEN <<Err("order_not_permutation", idx)>>
       ELSE <<>>

\* _validate_cloze without the loop of lines 223-229 over the keys of clozes
_validate_cloze_no_extra(card, idx) ==
    LET clozes == Get(card, "clozes", <<>>)
        unique_placeholders == Range(Placeholders(Get(card, "text", <<>>)))
        Times(n, code) == [k \in 1..n |-> Err(code, idx)]
    IN (IF unique_placeholders = {} THEN <<Err("cloze_placeholder_missing", idx)>> ELSE <<>>)
       \o (IF Cardinality(unique_placeholders) > 2
           THEN <<Err("cloze_placeholder_limit", idx)>> ELSE <<>>)
       \o Times(Cardinality(unique_placeholders \ DOMAIN clozes), "cloze_key_missing")

\* the errors about one key carry the same fields, so their order among them is not kept
_validate_cloze(card, idx) ==
    LET clozes == Get(card, "clozes", <<>>)
        unique_placeholders == Range(Placeholders(Get(card, "text", <<>>)))
        Times(n, code) == [k \in 1..n |-> Err(code, idx)]
    IN (IF unique_placeholders = {} THEN <<Err("cloze_placeholder_missing", idx)>> ELSE <<>>)
       \o (IF Cardinality(unique_placeholders) > 2
           THEN <<Err("cloze_placeholder_limit", idx)>> ELSE <<>>)
       \o Times(Cardinality(unique_placeholders \ DOMAIN clozes), "cloze_key_missing")
       \o Times(Cardinality(DOMAIN clozes \ unique_placeholders), "cloze_extra_key")

\* _validate_match reporting a pair only when both of its entries are used, in line 283
MatchDuplicate_both(used, left_idx, right_idx) ==
    \E i \in DOMAIN used : used[i][1] = left_idx /\ used[i][2] = right_idx

\* line 283: left_idx in used_left or right_idx in used_right; used holds the pairs before
MatchDuplicate(used, left_idx, right_idx) ==
    \E i \in DOMAIN used : used[i][1] = left_idx \/ used[i][2] = right_idx

_validate_match(card, idx) ==
    LET left == Get(card, "left", <<>>)
        right == Get(card, "right", <<>>)
        pairs == Get(card, "pairs", <<>>)
        kinds == PairKinds(card)
        Entry(i, j) == <<kinds[i][j], pairs[i][j]>>
        OutOfRange(i, j, items) ==
            kinds[i][j] # "int" \/ pairs[i][j] < 0 \/ pairs[i][j] >= Len(items)
        shaped == {i \in DOMAIN pairs : Len(pairs[i]) = 2}
        Used(i) == LET before == SelectSeq([k \in 1..(i - 1) |-> k], LAMBDA k : k \in shaped)
                   IN [k \in DOMAIN before |-> <<Entry(before[k], 1), Entry(before[k], 2)>>]
        OfPair(i) ==
            IF i \notin shaped THEN <<Err("match_pair_shape", idx)>>
            ELSE (IF OutOfRange(i, 1, left) THEN <<Err("match_left_range", idx)>> ELSE <<>>)
              \o (IF OutOfRange(i, 2, right) THEN <<Err("match_right_range", idx)>> ELSE <<>>)
              \o (IF MatchDuplicate(Used(i), Entry(i, 1), Entry(i, 2))
                  THEN <<Err("match_duplicate", idx)>> ELSE <<>>)
        RECURSIVE UpTo(_)
        UpTo(n) == IF n = 0 THEN <<>> ELSE UpTo(n - 1) \o OfPair(n)
    IN IF left = <<>> \/ right = <<>> \/ pairs = <<>> THEN <<Err("match_missing", idx)>>
       ELSE UpTo(Len(pairs))

\* the errors of validate_cards({"cards": cards}); valid is errors = <<>>
RECURSIVE validate_from(_, _)
validate_from(cards, idx) ==
    IF idx >= Len(cards) THEN <<>>
    ELSE LET card == cards[idx + 1]
         IN (CASE card.type = "notobject" -> <<Err("card_not_object", idx)>>
               [] card.type = "MCQ" -> _validate_mcq(card, idx)
               [] card.type = "OX" -> _validate_ox(card, idx)
               [] card.type = "ORDER" -> _validate_order(card, idx)
               [] card.type = "SHORT" ->  \* _validate_short, lines 163-170
                    IF Strip(Get(card, "answer", <<>>)) = <<>>
                    THEN <<Err("short_answer_missing", idx)>> ELSE <<>>
               [] card.type = "CLOZE" -> _validate_cloze(card, idx)
               [] card.type = "MATCH" -> _validate_match(card, idx)
               [] OTHER -> <<Err("unknown_type", idx)>>)
            \o validate_from(cards, idx + 1)

validate_cards(cards) == validate_from(cards, 0)

\* _validate_short, lines 171-180, writes into the card it checks: the aliases of the rubric
\* without brackets and blanks, each once (in the order of a Python set; the cards of the
\* model have one alias at most after that), and a rubric where there is none
_validate_short_rubric(card) ==
    LET RECURSIVE Once(_, _)
        Once(aliases, kept) ==
            IF aliases = <<>> THEN kept
            ELSE LET alias == SelectSeq(Head(aliases),
                                        LAMBDA tok : tok \notin {" ", "(", ")", "[", "]", "{", "}"})
                 IN Once(Tail(aliases),
                         IF alias = <<>> \/ IndexOf(kept, alias) # 0 THEN kept
                         ELSE Append(kept, alias))
    IN IF Has(card, "rubric")
       THEN Put(card, "rubric",
                Put(card.rubric, "aliases", Once(Get(card.rubric, "aliases", <<>>), <<>>)))
       ELSE Put(card, "rubric", [aliases |-> <<>>])

\* the payload as validate_cards leaves it
validated_cards(cards) ==
    [i \in DOMAIN cards |->
        IF cards[i].type = "SHORT" THEN _validate_short_rubric(cards[i]) ELSE cards[i]]

\* validate_cards raises TypeError instead of returning: sorted() in line 241 compares
\* entries of answer_order that have no order between them (null with anything, an integer
\* with a string or a list), lines 283-290 look up a pair entry that is a list in a set, and
\* line 28 looks up in a set a type that is a list or an object ("unhashable" in the model)
validate_raises(cards) ==
    \E c \in DOMAIN cards :
        LET card == cards[c]
        IN \/ card.type = "unhashable"
           \/ /\ card.type = "ORDER"
              /\ Get(card, "items", <<>>) # <<>>
              /\ Len(Get(card, "answer_order", <<>>)) >= 2
              /\ \/ "null" \in Range(OrderKinds(card))
                 \/ Cardinality(Range(OrderKinds(card))) >= 2
           \/ /\ card.type = "MATCH"
              /\ Get(card, "left", <<>>) # <<>> /\ Get(card, "right", <<>>) # <<>>
              /\ \E p \in DOMAIN Get(card, "pairs", <<>>) :
                    Len(card.pairs[p]) = 2 /\ "list" \in Range(PairKinds(card)[p])

----------------------------------------------------------------------------
(* Local repair (app/services/generate.py) *)

McqCodes == {"mcq_options_length", "mcq_option_duplicate", "mcq_option_empty", "mcq_answer_index",
             "mcq_option_semantic_duplicate", "mcq_option_filler", "mcq_answer_mismatch",
             "mcq_category_mix", "mcq_unnatural_question"}

\* the options without blanks and without repeats, first occurrence kept; repeats are
\* literal ones, or those under _canon when semantic
RECURSIVE DedupeBy(_, _, _)
DedupeBy(options, kept, semantic) ==
    LET key_of(opt) == IF semantic THEN _canon(opt) ELSE opt
    IN IF options = <<>> THEN kept
       ELSE DedupeBy(Tail(options),
                     IF Head(options) = <<>>
                        \/ \E i \in DOMAIN kept : key_of(kept[i]) = key_of(Head(options))
                     THEN kept ELSE Append(kept, Head(options)),
                     semantic)

\* for x in pool: stop at four options, skip the ones present and the correct answer
\* Backfill without the loops of lines 869-894: no option is added
Backfill_none(normalized, pool, correct_answer) == normalized

RECURSIVE Backfill(_, _, _)
Backfill(normalized, pool, correct_answer) ==
    IF pool = <<>> \/ Len(normalized) >= 4 THEN normalized
    ELSE Backfill(IF (\E i \in DOMAIN normalized : normalized[i] = Head(pool))
                     \/ <<Head(pool)>> = correct_answer
                  THEN normalized ELSE Append(normalized, Head(pool)),
                  Tail(pool), correct_answer)

person_names ==
    << <<"sejo">>, <<"seongjong">>, <<"jungjong">>, <<"injong">>,
       <<"myeongjong">>, <<"seonjo">>, <<"gwanghaegun">>, <<"injo">> >>

achievements ==
    << <<"gyeonggukdaejeon">>, <<"dongguktonggam">>, <<"gukjooryeui">>, <<"worincheongangjigok">>,
       <<"yongbieocheonga">>, <<"seokbosangjeol">>, <<"worinseokbo">>, <<"donggukjeongun">> >>

korean_history_terms ==
    << <<"gagyanal">>, <<"hanja">>, <<"cheonjamun">>, <<"donggukjeongun">>,
       <<"worincheongangjigok">>, <<"yongbieocheonga">>, <<"seokbosangjeol">>, <<"worinseokbo">> >>

\* the branch of _apply_local_fixes for the MCQ codes, on one card.  The pools hold eight
\* entries each, so four options are reached before the generic numbered fillers.
FixMcq(card) ==
    LET \* lines 907-913: the answer index follows the correct answer, or is put in range
        Reindexed(card2, normalized, correct_answer) ==
            IF correct_answer # <<>> /\ IndexOf(normalized, correct_answer) # 0
            THEN Put(card2, "answer_index", IndexOf(normalized, correct_answer) - 1)
            ELSE IF ~Has(card2, "answer_index") \/ card2.answer_index < 0
                    \/ card2.answer_index >= Len(normalized)
            THEN Put(card2, "answer_index", 0)
            ELSE card2
        WithOptions(card1, normalized, correct_answer) ==
            Reindexed(Put(card1, "options", normalized), normalized, correct_answer)
        \* lines 861-905: the correct answer is put among the options, which are filled
        \* up to four from the pool that the question calls for
        Refilled(card1, no_filler, correct_answer) ==
            LET with_answer == IF correct_answer # <<>> /\ IndexOf(no_filler, correct_answer) = 0
                               THEN IF no_filler # <<>>
                                    THEN [no_filler EXCEPT ![1] = correct_answer]
                                    ELSE <<correct_answer>>
                               ELSE no_filler
                question == Strip(Get(card1, "question", <<>>))
                pool == IF Contains(question, <<"nuga">>) THEN person_names
                        ELSE IF Contains(question, <<"eopjeok">>)
                                \/ Contains(question, <<"mandeun", " ", "geot">>) THEN achievements
                        ELSE korean_history_terms
            IN WithOptions(card1, Take(Backfill(with_answer, pool, correct_answer), 4),
                           correct_answer)
        \* lines 832-859: an unnatural question is rewritten from the explanation
        Reworded(explain, correct_answer) ==
            LET stems == {VerbStem(explain[i]) : i \in DOMAIN explain}
                royal == {i \in DOMAIN explain :
                            /\ explain[i] \in {"sejong", "sejongdaewang", "taejo", "jeongjo"}
                            /\ i < Len(explain) /\ explain[i + 1] \in {"eun", "neun", "i", "ga"}}
                who(verb) == <<correct_answer[1], "eul", " ", "nuga", " ", verb, "?">>
                question0 == Strip(Get(card, "question", <<>>))
            IN IF question0 # <<>> /\ UnnaturalQuestion(question0) /\ correct_answer # <<>>
               THEN IF "changje" \in stems THEN Put(card, "question", who("changjehaenna"))
                    ELSE IF "pyeonchan" \in stems THEN Put(card, "question", who("pyeonchanhaenna"))
                    ELSE IF "seollip" \in stems THEN Put(card, "question", who("seolliphaenna"))
                    ELSE IF royal # {}
                    THEN Put(card, "question",
                             <<"daeum", " ", "jung", " ",
                               explain[CHOOSE i \in royal : \A j \in royal : i <= j],
                               "ui", " ", "eopjeok", "eun", "?">>)
                    ELSE card
               ELSE card
        Repaired(no_filler, explain, correct_answer) ==
            Refilled(Reworded(explain, correct_answer), no_filler, correct_answer)
        \* lines 794-830: options stripped, literal and semantic repeats and fillers dropped
        Cleaned(stripped, explain) ==
            Repaired(SelectSeq(DedupeBy(DedupeBy(stripped, <<>>, FALSE), <<>>, TRUE),
                               LAMBDA opt : ~IsFiller(opt)),
                     explain, ExplainAnswer(explain))
    IN Cleaned([i \in DOMAIN Get(card, "options", <<>>) |-> Strip(card.options[i])],
               Strip(Get(card, "explain", <<>>)))

\* code.startswith("cloze_"), for the codes that the validation engine has
ClozeCodes == {"cloze_placeholder_missing", "cloze_placeholder_limit", "cloze_key_missing",
               "cloze_extra_key"}

\* lines 925-942: a key for every placeholder, with "" where the value is blank, and no
\* other key
FixCloze(card) ==
    LET placeholders == Range(Placeholders(Get(card, "text", <<>>)))
        clozes == Get(card, "clozes", <<>>)
    IN Put(card, "clozes",
           [key \in placeholders |->
               IF Strip(Get(clozes, key, <<>>)) = <<>> THEN <<>> ELSE clozes[key]])

\* <<cards after the repairs, changed>>
RECURSIVE _apply_local_fixes(_, _, _)
_apply_local_fixes(cards, errs, changed) ==
    IF errs = <<>> THEN <<cards, changed>>
    ELSE LET error == Head(errs)
             index == error.card_index
         IN IF index < 0 \/ index >= Len(cards) \/ cards[index + 1].type = "notobject"
            THEN _apply_local_fixes(cards, Tail(errs), changed)
            ELSE LET card == _normalize_card_structure(cards[index + 1])
                 IN IF error.code \in McqCodes
                    THEN _apply_local_fixes([cards EXCEPT ![index + 1] = FixMcq(card)],
                                            Tail(errs), TRUE)
                    ELSE IF error.code \in ClozeCodes
                    THEN _apply_local_fixes([cards EXCEPT ![index + 1] = FixCloze(card)],
                                            Tail(errs), TRUE)
                    ELSE _apply_local_fixes([cards EXCEPT ![index + 1] = card],
                                            Tail(errs), changed)

----------------------------------------------------------------------------
(* What generate_cards does to a card beside normalization (app/services/generate.py). *)
(* The texts of the model are shorter than the 20 characters that _compact_phrase and  *)
(* _is_token allow.                                                                    *)

\* the right text of a pair, rewritten from the left entity or from what the text holds
MatchRightText(entity, text) ==
    LET Holds(words) == \E i \in DOMAIN text : text[i] \in words
        \* line 653: a word with its particle, and the blanks after it, removed
        RECURSIVE Cleaned(_)
        Cleaned(t) ==
            IF t = <<>> THEN <<>>
            ELSE IF Len(t) >= 2 /\ t[1] \notin NotAWord /\ t[2] \in Particles
            THEN Cleaned(LStrip(SubSeq(t, 3, Len(t))))
            ELSE <<Head(t)>> \o Cleaned(Tail(t))
        \* _compact_phrase: strip(), then rstrip(" .!?;:")
        RECURSIVE Compact(_)
        Compact(t) == IF t # <<>> /\ t[Len(t)] \in {" ", ".", "!", "?", ";", ":"}
                      THEN Compact(SubSeq(t, 1, Len(t) - 1)) ELSE t
        phrase == Compact(Strip(Cleaned(text)))
    IN CASE entity = <<"hunminjeongeum">> -> <<"hanguk", " ", "goyu", " ", "munja">>
         [] entity = <<"gyeonggukdaejeon">> -> <<"joseon", " ", "gibon", " ", "beopjeon">>
         [] entity = <<"dongguktonggam">> -> <<"hanguksa", " ", "pyeonnyeonche", " ", "saseo">>
         [] OTHER ->
            IF \E i \in DOMAIN text : VerbStem(text[i]) = "changje" \/ text[i] = "balmyeong"
            THEN IF Holds({"geulja", "munja"}) THEN <<"munja", " ", "chegye">>
                 ELSE IF Holds({"gigu", "dogu"}) THEN <<"gwahak", " ", "gigu">>
                 ELSE <<"changjakmul">>
            ELSE IF \E i \in DOMAIN text : VerbStem(text[i]) = "pyeonchan"
            THEN IF Holds({"seojeok", "chaek"})
                 THEN IF Holds({"nongeop"}) THEN <<"nongeop", " ", "gisulseo">>
                      ELSE IF Holds({"yeoksa"}) THEN <<"yeoksaseo">>
                      ELSE <<"pyeonchanseo">>
                 ELSE <<"pyeonchanmul">>
            ELSE IF phrase # <<>> THEN phrase ELSE <<"gwallyeon", " ", "hangmok">>

\* lines 593-661, for a card of type MATCH: pair after pair, the right text it points at
_sanitize_match_right(card) ==
    LET left == Get(card, "left", <<>>)
        right == Get(card, "right", <<>>)
        pairs == Get(card, "pairs", <<>>)
        kinds == PairKinds(card)
        RECURSIVE Mapped(_, _)
        Mapped(n, mapped) ==
            IF n > Len(pairs) THEN mapped
            ELSE Mapped(n + 1,
                        IF /\ Len(pairs[n]) = 2 /\ kinds[n] = <<"int", "int">>
                           /\ pairs[n][1] \in 0..(Len(left) - 1)
                           /\ pairs[n][2] \in 0..(Len(right) - 1)
                        THEN [mapped EXCEPT ![pairs[n][2] + 1] =
                                 MatchRightText(Strip(left[pairs[n][1] + 1]),
                                                Strip(right[pairs[n][2] + 1]))]
                        ELSE mapped)
    IN IF card.type # "MATCH" \/ left = <<>> \/ right = <<>> THEN card
       ELSE Put(card, "right", Mapped(1, right))

\* _is_token and _is_good_token: one word, without blank and punctuation inside
_is_token(s) ==
    /\ Strip(s) # <<>>
    /\ \A i \in DOMAIN Strip(s) :
          Strip(s)[i] \notin {" ", ",", ".", "?", "!", ":", ";", "\"", "'", "(", ")"}

\* lines 663-715: the entities that are tokens, then the words of the statements, once each
_cloze_candidates_from_facts(fs) ==
    LET ents == SelectSeq(Get(fs, "entities", <<>>), _is_token)
        IsLetters(tok) == tok \notin (NotAWord \ Particles) /\ PlaceholderKey(tok) = ""
                          /\ _is_token(<<tok>>)
        \* re.findall(r"[letters and digits]+", stmt)
        RECURSIVE Words(_, _)
        Words(text, word) ==
            IF text = <<>> THEN IF word = <<>> THEN <<>> ELSE <<word>>
            ELSE IF IsLetters(Head(text)) THEN Words(Tail(text), Append(word, Head(text)))
            ELSE (IF word = <<>> THEN <<>> ELSE <<word>>) \o Words(Tail(text), <<>>)
        facts_list == Get(fs, "facts", <<>>)
        RECURSIVE OfFacts(_)
        OfFacts(n) == IF n = 0 THEN <<>>
                      ELSE OfFacts(n - 1) \o Words(Get(facts_list[n], "statement", <<>>), <<>>)
    IN DedupeBy([i \in DOMAIN ents |-> Strip(ents[i])] \o OfFacts(Len(facts_list)), <<>>, FALSE)

\* lines 718-773: a value of clozes that is no token gives way to the candidate picked, or ""
_fill_cloze_blanks_from_facts(card, fs) ==
    LET candidates == _cloze_candidates_from_facts(fs)
        explanation == Get(card, "explain", <<>>)
        text_body == Get(card, "text", <<>>)
        text_no_ph == [i \in DOMAIN text_body |->
                          IF Placeholders(<<text_body[i]>>) # <<>> THEN " " ELSE text_body[i]]
        In(text) == SelectSeq(candidates, LAMBDA c : Contains(text, c))
        replacement == IF In(explanation) # <<>> THEN In(explanation)[1]
                       ELSE IF In(text_no_ph) # <<>> THEN In(text_no_ph)[1]
                       ELSE IF candidates # <<>> THEN candidates[1]
                       ELSE <<>>
    IN IF card.type # "CLOZE" \/ ~Has(card, "clozes") THEN card
       ELSE Put(card, "clozes",
                [key \in DOMAIN card.clozes |->
                    IF _is_token(card.clozes[key]) THEN card.clozes[key] ELSE replacement])

\* lines 1220-1225: what becomes of a card that the oracle returned
normalized_card(raw_card, fs) ==
    _sanitize_by_type(_fill_cloze_blanks_from_facts(
        _sanitize_match_right(_normalize_card_structure(raw_card)), fs))

----------------------------------------------------------------------------
(* What the caller passes and what the oracle answers *)

\* agenerate_one, lines 586-649 of app/llm/client.py: the MATCH card built from the triples
\* of the facts it is given; <<>> when there are fewer than three complete triples or pairs
RECURSIVE TriplePairs(_, _, _, _)
TriplePairs(norm_triples, left, right, pairs) ==
    IF norm_triples = <<>> \/ (pairs # <<>> /\ Len(left) >= 4 /\ Len(right) >= 4)
    THEN <<left, right, pairs>>
    ELSE LET t == Head(norm_triples)
             r_label == t[2] \o <<":", " ">> \o t[3]
             left1 == IF IndexOf(left, t[1]) = 0 THEN Append(left, t[1]) ELSE left
             right1 == IF IndexOf(right, r_label) = 0 THEN Append(right, r_label) ELSE right
         IN TriplePairs(Tail(norm_triples), left1, right1,
                        Append(pairs, <<IndexOf(left1, t[1]) - 1, IndexOf(right1, r_label) - 1>>))

_match_from_triples(fs) ==
    LET complete == SelectSeq(Get(fs, "triples", <<>>),
                              LAMBDA t : /\ Has(t, "subject") /\ Strip(t.subject) # <<>>
                                         /\ Has(t, "predicate") /\ Strip(t.predicate) # <<>>
                                         /\ Has(t, "object") /\ Strip(t.object) # <<>>)
        norm_triples == [i \in DOMAIN complete |->
                            <<Strip(complete[i].subject), Strip(complete[i].predicate),
                              Strip(complete[i].object)>>]
        Card(built) ==
            LET trimmed_pairs == Take(SelectSeq(built[3], LAMBDA pr : pr[1] < 4 /\ pr[2] < 4), 4)
            IN IF Len(built[3]) < 3 \/ Len(trimmed_pairs) < 3 THEN <<>>
               ELSE <<[type |-> "MATCH", left |-> Take(built[1], 4), right |-> Take(built[2], 4),
                       pairs |-> trimmed_pairs,
                       explain |-> <<"chuchuldoen", " ", "gwangye", "(", "triples", ")">>]>>
    IN IF Len(norm_triples) < 3 THEN <<>>
       ELSE Card(TriplePairs(norm_triples, <<>>, <<>>, <<>>))

\* the arguments of generate_cards that make up the cache key; one behaviour follows the
\* invocations made with one of them
Requests ==
    LET text == <<" ", "Sejong", " ", "1443", "\n", "Joseon">>
        marked == << <<" ", "Sejong">>, <<"sejong">>, <<"hunminjeongeum">> >>
        Request(c, hl, ts, fm) == [content |-> c, highlights |-> hl, types |-> ts, focus_mode |-> fm]
    IN { Request(text, <<>>, <<"mcq", "OX">>, "highlight"),
         Request(text, marked, <<"mcq", "OX">>, "highlight"),
         Request(text, <<>>, <<"mcq", "OX">>, "timeline"),
         Request(<<" ">>, <<>>, <<"OX">>, "highlight"),
         Request(text, marked, <<"OX">>, "highlight"),
         Request(text, <<>>, <<"OX">>, "timeline"),
         Request(text, <<>>, <<"order">>, "highlight"),
         Request(text, marked, <<"order">>, "highlight"),
         Request(text, <<>>, <<"order">>, "timeline"),
         Request(text, marked, <<"match">>, "highlight"),
         Request(text, <<>>, <<"match">>, "timeline") }

LabelChangje == <<"hunminjeongeum", " ", "changje">>
LabelGeonguk == <<"joseon", " ", "geonguk">>
LabelBanpo == <<"hunminjeongeum", " ", "banpo">>

\* timelines the extraction oracle produces
TimelineA ==
    <<[year |-> 1446, label |-> LabelBanpo], [year |-> 1392, label |-> <<" ">> \o LabelGeonguk],
      [label |-> <<" ">>], [year |-> 1443, label |-> LabelChangje]>>

TimelineB ==
    <<[label |-> <<"imjinwaeran">>], [year |-> 1392, label |-> LabelGeonguk],
      [year |-> 0, label |-> <<"gojoseon">>], [year |-> 1443, label |-> LabelChangje]>>

\* the timeline argument: absent, or the caller's events
UserTimelines ==
    { <<>>,
      <<[year |-> 1443, label |-> <<"hangul", "eul", " ", "changje">>],
        [year |-> 1392, label |-> LabelGeonguk], [label |-> <<"imjinwaeran">>],
        [year |-> 1446, label |-> LabelBanpo]>> }

Statement1 == <<"Sejong", "eun", " ", "hunminjeongeum", "eul", " ", "changjehayeotda", ".">>

\* triples the extraction oracle produces: four complete ones, two of them about one subject,
\* and one without object
ExtractedTriples ==
    LET Triple(s, p, o) == [subject |-> s, predicate |-> p, object |-> o]
    IN << Triple(<<"sejong">>, <<"changje">>, <<"hunminjeongeum">>),
          Triple(<<" ", "taejo">>, <<"geonguk">>, <<"joseon">>),
          Triple(<<"seongjong">>, <<"pyeonchan">>, <<" ">>),
          Triple(<<"seongjong">>, <<"pyeonchan">>, <<"gyeonggukdaejeon">>),
          Triple(<<"sejong">>, <<"banpo">>, <<"hunminjeongeum">>) >>

\* what _call_responses gives in the extract stage: <<>> when it raises
ExtractReplies ==
    { <<>>,
      <<[entities |-> << <<" ", "Sejong">>, <<" ">> >>,
         facts |-> <<[type |-> "event", statement |-> <<" ">>], [statement |-> Statement1]>>,
         timeline |-> TimelineA, triples |-> ExtractedTriples]>>,
      <<[facts |-> <<[type |-> "fact"]>>, timeline |-> TimelineB]>> }

GoodMCQ ==
    [type |-> "MCQ",
     question |-> <<"daeum", " ", "jung", " ", "sejong", "ui", " ", "eopjeok", "eun", "?">>,
     options |-> << <<"hunminjeongeum">>, <<"gyeonggukdaejeon">>, <<"dongguktonggam">>, <<"cheonjamun">> >>,
     answer_index |-> 0,
     explain |-> Statement1]

\* literal duplicate among the options: local repair makes it valid
DupMCQ ==
    [type |-> "MCQ",
     question |-> <<"hunminjeongeum", " ", "changje", " ", "sigi", "neun", "?">>,
     options |-> << <<"1443">>, <<"1443">>, <<"1446">>, <<"1448">> >>,
     answer_index |-> 0,
     explain |-> <<"taimrain", " ", "geungeo", ".">>]

\* unnatural question and nothing in explain to rewrite it from: local repair cannot help
UnnaturalMCQ ==
    [type |-> "MCQ",
     question |-> <<"hunminjeongeum", "iran", "?">>,
     options |-> << <<"hangul">>, <<"hanja">>, <<"hunminjeongeum">> >>,
     answer_index |-> 0,
     explain |-> <<"bonmun", " ", "geungeo", ".">>]

\* the answer as text and the explanation under another field name
AnswerTextMCQ ==
    [type |-> "MCQ",
     question |-> <<"daeum", " ", "jung", " ", "sejong", "ui", " ", "eopjeok", "eun", "?">>,
     options |-> << <<"gyeonggukdaejeon">>, <<" ", "hunminjeongeum">>, <<"cheonjamun">> >>,
     answer |-> <<"hunminjeongeum">>,
     explanation |-> Statement1]

\* two options that are aliases of each other, the correct answer among them
SemDupMCQ ==
    [type |-> "MCQ",
     question |-> <<"daeum", " ", "jung", " ", "sejong", "ui", " ", "eopjeok", "eun", "?">>,
     options |-> << <<"hanja">>, <<"hangul">>, <<"hunminjeongeum">>, <<"gyeonggukdaejeon">> >>,
     answer_index |-> 2,
     explain |-> Statement1]

\* an alias of the answer that the explanation names among the options, no option chosen
AliasAnswerMCQ ==
    [type |-> "MCQ",
     question |-> <<"daeum", " ", "jung", " ", "sejong", "ui", " ", "eopjeok", "eun", "?">>,
     options |-> << <<"gyeonggukdaejeon">>, <<"hangul">>, <<"hanja">> >>,
     answer_index |-> 5,
     explain |-> Statement1]

\* the explanation names the first option, the second is chosen
MismatchMCQ ==
    [type |-> "MCQ",
     question |-> <<"daeum", " ", "jung", " ", "sejong", "ui", " ", "eopjeok", "eun", "?">>,
     options |-> << <<"hunminjeongeum">>, <<"gyeonggukdaejeon">>, <<"dongguktonggam">> >>,
     answer_index |-> 1,
     explain |-> Statement1]

GoodOX == [type |-> "OX", statement |-> Statement1, answer |-> TRUE, explain |-> <<"bonmun", ".">>]

BadOX == [type |-> "OX", statement |-> <<" ">>, answer |-> FALSE]

\* the items under the field name answers, no answer_order
AnswersORDER == [type |-> "ORDER", answers |-> <<LabelGeonguk, LabelChangje, LabelBanpo>>]

BadORDER == [type |-> "ORDER", items |-> <<LabelGeonguk, LabelChangje>>, answer_order |-> <<0, 2>>]

\* an order that is not the identity, and one that names an item twice
ShuffledORDER ==
    [type |-> "ORDER", items |-> <<LabelChangje, LabelBanpo, LabelGeonguk>>,
     answer_order |-> <<2, 0, 1>>, explain |-> <<"yeondaesun", ".">>]

RepeatORDER ==
    [type |-> "ORDER", items |-> <<LabelGeonguk, LabelChangje>>, answer_order |-> <<0, 1, 1>>]

\* answer_order [0, "1"], ["0", "1"] and [null, 1]
KindsORDER ==
    {[type |-> "ORDER", items |-> <<LabelGeonguk, LabelChangje>>, answer_order |-> <<0, 1>>,
      answer_order_kinds |-> kinds] :
        kinds \in {<<"int", "str">>, <<"str", "str">>, <<"null", "int">>}}

\* MATCH cards: a good one; pairs that use an index twice, leave the range, or are no
\* pairs; no pairs; a pair whose left entry is the string "0"; a pair whose right entry is
\* the list [1]
MatchCards ==
    LET left == << <<"sejong">>, <<" ", "taejo">>, <<"seongjong">> >>
        right == <<LabelChangje, LabelGeonguk, <<"gyeonggukdaejeon", " ", "pyeonchan">> >>
        Match(pairs) == [type |-> "MATCH", left |-> left, right |-> right, pairs |-> pairs,
                         explain |-> <<"bonmun", ".">>]
    IN { Match(<< <<0, 0>>, <<2, 2>>, <<1, 1>> >>),
         Match(<< <<0, 0>>, <<1, 0>>, <<2, 2>>, <<0, 1>> >>),
         Match(<< <<0, 0>>, <<1, 5>>, <<2, 2>> >>),
         Match(<< <<0, 0, 1>>, <<1, 1>>, <<2, 2>> >>),
         [type |-> "MATCH", left |-> left, right |-> right],
         [type |-> "MATCH", left |-> left, right |-> right, pairs |-> << <<0, 0>>, <<1, 1>> >>,
          pairs_kinds |-> << <<"str", "int">>, <<"int", "int">> >>],
         [type |-> "MATCH", left |-> left, right |-> right, pairs |-> << <<0, 0>>, <<1, 1>> >>,
          pairs_kinds |-> << <<"int", "int">>, <<"int", "list">> >>] }

\* MATCH cards with pairs by index into lists that hold a blank entry or the same text
\* twice; the last one is the card that lines 1127-1130 build from events of the years
\* 1392, 1392 and 1443
RepeatMatchCards ==
    LET right == <<LabelChangje, LabelGeonguk, LabelBanpo>>
        Match(left, pairs) == [type |-> "MATCH", left |-> left, right |-> right, pairs |-> pairs,
                               explain |-> <<"bonmun", ".">>]
    IN { Match(<< <<" ">>, <<"sejong">>, <<"taejo">> >>, << <<1, 0>>, <<2, 1>> >>),
         Match(<< <<"sejong">>, <<"sejong">>, <<"taejo">> >>, << <<0, 0>>, <<2, 1>> >>),
         Match(<< <<"sejong">>, <<"taejo">>, <<"taejo">> >>, << <<0, 0>>, <<1, 1>>, <<2, 2>> >>),
         Match(<< <<"1392">>, <<"1392">>, <<"1443">> >>, << <<0, 0>>, <<1, 1>>, <<2, 2>> >>) }

\* CLOZE cards: a good one; keys beside the placeholders, placeholders without key, values
\* under other field names, three blanks, no blank, a blank twice
ClozeCards ==
    LET one == <<"sejong", "eun", " ", "{{c1}}", "eul", " ", "changjehayeotda", ".">>
        two == <<"{{c2}}", "eun", " ", "{{c1}}", "eul", " ", "changjehayeotda", ".">>
    IN { [type |-> "CLOZE", text |-> one, clozes |-> [c1 |-> <<"hunminjeongeum">>],
          explain |-> Statement1],
         [type |-> "CLOZE", text |-> two,
          clozes |-> [c1 |-> <<"hunminjeongeum">>, c2 |-> <<"sejong">>, c3 |-> <<"hangul">>]],
         [type |-> "CLOZE", text |-> two, clozes |-> [c1 |-> <<" ">>]],
         [type |-> "CLOZE", question |-> two,
          answers |-> << <<"sejong">>, <<"hunminjeongeum">> >>],
         [type |-> "CLOZE", text |-> one \o <<" ", "{{c1}}">>, answer |-> <<"hangul">>,
          explanation |-> Statement1],
         [type |-> "CLOZE", text |-> two \o <<" ", "{{c3}}">>,
          clozes |-> [c1 |-> <<"a">>, c2 |-> <<"b">>, c3 |-> <<"c">>]],
         [type |-> "CLOZE", text |-> Statement1, clozes |-> [c1 |-> <<"hunminjeongeum">>]] }

\* the "cards" lists the oracle returns in the generate and fix stages when card_type is asked
CardLists(card_type) ==
    CASE card_type = "MCQ" ->
            { <<GoodMCQ>>, <<DupMCQ>>, <<UnnaturalMCQ>>, <<AnswerTextMCQ>>, <<GoodOX, GoodMCQ>>,
              <<>>, <<[type |-> "notobject"]>> }
      [] card_type = "OX" -> { <<GoodOX, GoodMCQ>>, <<BadOX>>, <<GoodMCQ>>, <<>>, <<[type |-> "ESSAY"]>> }
      [] card_type = "MATCH" -> {<<card>> : card \in MatchCards} \cup { <<>> }
      [] card_type = "CLOZE" -> {<<card>> : card \in ClozeCards} \cup { <<>> }
      [] OTHER -> { <<AnswersORDER>>, <<BadORDER>>, <<GoodOX>>, <<>> }

\* what _call_responses gives in the generate and fix stages: it raises RuntimeError (no
\* text in the response), ValueError (the text is no JSON object, or an empty one) or the
\* API's timeout error, or it returns a payload
OracleReplies(card_type) ==
    {[raises |-> e] : e \in {"RuntimeError", "ValueError", "APITimeoutError"}}
    \cup {[raises |-> "", cards |-> cs] : cs \in CardLists(card_type)}

----------------------------------------------------------------------------
(* generate_cards (app/services/generate.py), one action per stretch between awaits *)

NoFacts == [entities |-> <<>>, facts |-> <<>>, timeline |-> <<>>]

NoResult == [status |-> "none"]

\* nothing done yet in this invocation: the number of calls of aextract_facts, agenerate_one,
\* agenerate_cards, afix_cards and _write_cache, what the extraction oracle replied, the
\* exceptions that the calls of the generate and fix stages raised, as (stage, exception),
\* the number of calls of agenerate_one that built the card without the oracle, and the
\* number of calls of _apply_local_fixes
NoCalls ==
    [extract |-> 0, generate_one |-> 0, generate_cards |-> 0, fix |-> 0, write |-> 0,
     reply |-> <<>>, raised |-> <<>>, built |-> 0, local_fixes |-> 0]

Meta(cached, usage) ==
    [cached |-> cached, tokens_in |-> usage.tokens_in, tokens_out |-> usage.tokens_out,
     latency_ms |-> usage.latency_ms]

Success(cards, fs, meta) == [status |-> "ok", cards |-> cards, facts |-> fs, meta |-> meta]

GenerationError(errs) == [status |-> "GenerationError", errors |-> errs]

StageError(stage) == <<[code |-> "llm_invalid_output", stage |-> stage]>>

\* lines 1003-1025: the cache check; a hit returns at once
Start(fr, tl) ==
    /\ pc = "idle"
    /\ tl # <<>> => focus_mode = "timeline"
    /\ force_refresh' = fr
    /\ timeline' = tl
    /\ LET cached_payload == IF fr THEN <<>> ELSE _read_cache(CacheKey)
       IN IF cached_payload # <<>>
          THEN /\ pc' = "done"
               /\ result' = Success(cached_payload[1].cards, cached_payload[1].facts,
                                    Meta(TRUE, NoUsage))
          ELSE /\ pc' = "extract"
               /\ result' = NoResult
    /\ facts' = NoFacts
    /\ cards_payload' = <<>>
    /\ errors' = <<>>
    /\ totals' = NoUsage
    /\ calls' = NoCalls
    /\ UNCHANGED <<clock, cache, content, highlights, types, focus_mode, rl_vars>>

\* lines 1044-1081: the facts after the focus mode has been applied
FocusFacts(fs, sanitized) ==
    IF FocusModeNormalized = "highlight" /\ sanitized # <<>>
    THEN LET target == Lower(sanitized[1])
             hits == SelectSeq(fs.facts, LAMBDA f : Contains(Lower(f.statement), target))
             filtered == IF hits # <<>> THEN <<hits[1]>>
                         ELSE IF fs.facts # <<>> THEN <<fs.facts[1]>> ELSE <<>>
             chosen == IF filtered = <<>> \/ Strip(filtered[1].statement) = <<>>
                       THEN <<[type |-> "fact", statement |-> sanitized[1]]>>
                       ELSE filtered
         IN IF SingleType # "MATCH"
            THEN [entities |-> <<sanitized[1]>>, facts |-> chosen, timeline |-> <<>>]
            ELSE [entities |-> sanitized, facts |-> fs.facts, timeline |-> <<>>]
    ELSE IF FocusModeNormalized = "timeline"
    THEN [entities |-> <<>>, facts |-> <<>>, timeline |-> fs.timeline]
    ELSE fs

\* lines 1083-1095: (all_events, numeric_events) of timeline mode
FocusEvents(fs) ==
    IF timeline # <<>> THEN <<UserTimelineEvents(timeline), UserTimelineEvents(timeline)>>
    ELSE _timeline_events(fs)

\* lines 1033-1172: extraction, then the deterministic builds.  The MATCH card of timeline
\* mode (lines 1124-1148) is handled as the timeline card of lines 1103-1122 is, which
\* there is none of for MATCH.
Extract(reply) ==
    /\ pc = "extract"
    /\ LET seen == [calls EXCEPT !.extract = @ + 1, !.reply = reply]
           usage == Usage.extract
           \* lines 1107-1122 and 1159-1172: the card that was built is validated
           Decided(fs, timeline_card, order_card, cards, errs) ==
               IF timeline_card # <<>> /\ errs # <<>>
               THEN /\ pc' = "failed"
                    /\ result' = GenerationError(errs)
                    /\ calls' = seen
                    /\ facts' = fs /\ cards_payload' = cards /\ errors' = errs /\ totals' = usage
                    /\ UNCHANGED cache
               ELSE IF timeline_card # <<>>
               THEN /\ pc' = "done"
                    /\ result' = Success(cards, fs, Meta(FALSE, usage))
                    /\ cache' = _write_cache(CacheKey, Success(cards, fs, Meta(FALSE, usage)))
                    /\ calls' = [seen EXCEPT !.write = @ + 1]
                    /\ facts' = fs /\ cards_payload' = cards /\ errors' = errs /\ totals' = usage
               ELSE IF order_card # <<>> /\ errs = <<>>
               THEN /\ pc' = "done"
                    /\ result' = Success(cards, fs, Meta(FALSE, NoUsage))
                    /\ calls' = seen
                    /\ facts' = fs /\ cards_payload' = cards /\ errors' = errs /\ totals' = usage
                    /\ UNCHANGED cache
               ELSE /\ pc' = "generate"
                    /\ calls' = seen
                    /\ facts' = fs /\ totals' = usage
                    /\ UNCHANGED <<cache, cards_payload, errors, result>>
           Validated(fs, timeline_card, order_card, cards) ==
               Decided(fs, timeline_card, order_card, cards, validate_cards(cards))
           \* lines 1105-1106 and 1158: the timeline card comes before the ORDER card
           Built(fs, timeline_card, order_card) ==
               Validated(fs, timeline_card, order_card,
                         IF timeline_card # <<>>
                         THEN <<_sanitize_by_type(_normalize_card_structure(timeline_card[1]))>>
                         ELSE IF order_card # <<>>
                         THEN <<_sanitize_by_type(_normalize_card_structure(order_card[1]))>>
                         ELSE <<>>)
           \* lines 1100-1103 and 1154-1155
           WithTimeline(fs, numeric_events) ==
               Built(fs,
                     IF FocusModeNormalized # "timeline" THEN <<>>
                     ELSE IF SingleType = "MATCH" /\ Len(numeric_events) >= 3
                     THEN <<TimelineMatchCard(numeric_events)>>
                     ELSE _timeline_card_from_events(SingleType, numeric_events),
                     IF SingleType = "ORDER" THEN _order_from_timeline(fs) ELSE <<>>)
           \* lines 1083-1101
           WithEvents(focused, events) ==
               WithTimeline(IF FocusModeNormalized = "timeline"
                            THEN [focused EXCEPT !.timeline = events[1]] ELSE focused,
                            events[2])
           Focused(focused) == WithEvents(focused, FocusEvents(focused))
           \* lines 1033-1042
           Extracted(sanitized, extracted) ==
               IF extracted = <<>>
               THEN /\ pc' = "failed"
                    /\ result' = GenerationError(StageError("extract"))
                    /\ calls' = seen
                    /\ UNCHANGED <<cache, facts, cards_payload, errors, totals>>
               ELSE Focused(FocusFacts(extracted[1], sanitized))
           Sanitized(sanitized) == Extracted(sanitized, aextract_facts(reply, content, sanitized))
       IN Sanitized(_sanitize_highlights(highlights))
    /\ UNCHANGED <<clock, content, highlights, types, focus_mode, force_refresh, timeline, rl_vars>>

\* Processed without the assignment to errors of lines 1237 and 1274: the errors of the
\* validation before the local repair are kept
Processed_first_errors(raw_cards) ==
    LET Revalidated(cards1, errs0) ==
            [cards |-> validated_cards(cards1),
             errors |-> IF validate_cards(cards1) = <<>> THEN <<>> ELSE errs0,
             local_fixes |-> 1]
        Repaired(cards0, errs0, fixed) ==
            IF errs0 = <<>> THEN [cards |-> cards0, errors |-> errs0, local_fixes |-> 0]
            ELSE IF fixed[2]
            THEN Revalidated([i \in DOMAIN fixed[1] |->
                                 _sanitize_by_type(_fill_cloze_blanks_from_facts(fixed[1][i], facts))],
                             errs0)
            ELSE [cards |-> fixed[1], errors |-> errs0, local_fixes |-> 1]
        Validated(cards0, errs0) ==
            Repaired(cards0, errs0, _apply_local_fixes(cards0, errs0, FALSE))
        Normalized(cards0) == Validated(validated_cards(cards0), validate_cards(cards0))
    IN Normalized([i \in DOMAIN Take(raw_cards, 1) |-> normalized_card(raw_cards[i], facts)])

\* Processed without the local repair of lines 1229-1236: validation alone decides
Processed_no_repair(raw_cards) ==
    LET Validated(cards0) ==
            [cards |-> validated_cards(cards0), errors |-> validate_cards(cards0),
             local_fixes |-> 0]
    IN Validated([i \in DOMAIN Take(raw_cards, 1) |-> normalized_card(raw_cards[i], facts)])

\* lines 1217-1237 and 1254-1274: the first card normalized, its blanks filled and its
\* fields whitelisted, validation, local repair and, when it changed something, validation
\* again. The fix stage cleans the right side of a MATCH card after the whitelist, and goes
\* on with the payload it has when the reply has no card: for the cards of the oracle both
\* give what normalized_card gives, and a card it has produced it leaves as it is.
Processed(raw_cards) ==
    LET Revalidated(cards1) ==
            [cards |-> validated_cards(cards1), errors |-> validate_cards(cards1),
             local_fixes |-> 1]
        Repaired(cards0, errs0, fixed) ==
            IF errs0 = <<>> THEN [cards |-> cards0, errors |-> errs0, local_fixes |-> 0]
            ELSE IF fixed[2]
            THEN Revalidated([i \in DOMAIN fixed[1] |->
                                 _sanitize_by_type(_fill_cloze_blanks_from_facts(fixed[1][i], facts))])
            ELSE [cards |-> fixed[1], errors |-> errs0, local_fixes |-> 1]
        Validated(cards0, errs0) ==
            Repaired(cards0, errs0, _apply_local_fixes(cards0, errs0, FALSE))
        Normalized(cards0) == Validated(validated_cards(cards0), validate_cards(cards0))
    IN Normalized([i \in DOMAIN Take(raw_cards, 1) |-> normalized_card(raw_cards[i], facts)])

\* Finish with the cache write moved before the stage: the payload that the invocation had
\* before the reply was processed is stored
Finish_writes_early(cards, usage, seen) ==
    /\ pc' = "done"
    /\ result' = Success(cards, facts, Meta(FALSE, usage))
    /\ cache' = _write_cache(CacheKey, Success(cards_payload, facts, Meta(FALSE, totals)))
    /\ calls' = [seen EXCEPT !.write = @ + 1]

\* lines 1279-1292: the cache write and the return
Finish(cards, usage, seen) ==
    /\ pc' = "done"
    /\ result' = Success(cards, facts, Meta(FALSE, usage))
    /\ cache' = _write_cache(CacheKey, Success(cards, facts, Meta(FALSE, usage)))
    /\ calls' = [seen EXCEPT !.write = @ + 1]

\* lines 1197-1239: what follows a payload of the generate stage
Generated(raw_cards, seen, gen_usage) ==
    LET Settled(r, usage) ==
            /\ cards_payload' = r.cards
            /\ errors' = r.errors
            /\ totals' = usage
            /\ IF r.errors = <<>>
               THEN Finish(r.cards, usage, [seen EXCEPT !.local_fixes = @ + r.local_fixes])
               ELSE /\ pc' = "fix"
                    /\ calls' = [seen EXCEPT !.local_fixes = @ + r.local_fixes]
                    /\ UNCHANGED <<cache, result>>
    IN Settled(Processed(raw_cards), AddUsage(totals, gen_usage))

\* GenerateOne without the fallback of lines 1182-1183: an exception of agenerate_one ends
\* the invocation
GenerateOne_no_fallback(reply) ==
    /\ pc = "generate"
    /\ IF reply.raises # ""
       THEN /\ pc' = "failed"
            /\ result' = GenerationError(StageError("generate"))
            /\ calls' = [calls EXCEPT !.generate_one = @ + 1, !.raised = Append(@, <<"generate", reply.raises>>)]
            /\ UNCHANGED <<cache, cards_payload, errors, totals>>
       ELSE Generated(reply.cards, [calls EXCEPT !.generate_one = @ + 1], Usage.generate)
    /\ UNCHANGED <<clock, content, highlights, types, focus_mode, force_refresh, timeline,
                   facts, rl_vars>>

\* lines 1174-1176: agenerate_one(facts_compact, single_type, difficulty); the MATCH card
\* built from the triples comes back without a call of the oracle and with a usage of
\* nothing; any exception of the oracle leads to the fallback call
GenerateOne(reply) ==
    /\ pc = "generate"
    /\ LET Called(built) ==
               IF built # <<>>
               THEN Generated(built, [calls EXCEPT !.generate_one = @ + 1, !.built = @ + 1],
                              NoUsage)
               ELSE IF reply.raises # ""
               THEN /\ pc' = "fallback"
                    /\ calls' = [calls EXCEPT !.generate_one = @ + 1,
                                              !.raised = Append(@, <<"generate", reply.raises>>)]
                    /\ UNCHANGED <<cache, cards_payload, errors, totals, result>>
               ELSE Generated(reply.cards, [calls EXCEPT !.generate_one = @ + 1],
                              Usage.generate)
       IN Called(IF SingleType = "MATCH"
                 THEN _match_from_triples(shrink_for_type(facts, SingleType)) ELSE <<>>)
    /\ UNCHANGED <<clock, content, highlights, types, focus_mode, force_refresh, timeline,
                   facts, rl_vars>>

\* lines 1177-1195: agenerate_cards, the fallback call shape
Fallback(reply) ==
    /\ pc = "fallback"
    /\ IF reply.raises # ""
       THEN /\ pc' = "failed"
            /\ result' = GenerationError(StageError("generate"))
            /\ calls' = [calls EXCEPT !.generate_cards = @ + 1,
                                      !.raised = Append(@, <<"generate", reply.raises>>)]
            /\ UNCHANGED <<cache, cards_payload, errors, totals>>
       ELSE Generated(reply.cards, [calls EXCEPT !.generate_cards = @ + 1], Usage.generate)
    /\ UNCHANGED <<clock, content, highlights, types, focus_mode, force_refresh, timeline,
                   facts, rl_vars>>

\* lines 1239-1277: afix_cards; only RuntimeError is caught
Fix(reply) ==
    /\ pc = "fix"
    /\ LET seen == [calls EXCEPT !.fix = @ + 1,
                                 !.raised = IF reply.raises # ""
                                             THEN Append(@, <<"fix", reply.raises>>) ELSE @]
           \* lines 1266-1277: the validation that decides
           Settled(r, usage) ==
               /\ cards_payload' = r.cards
               /\ errors' = r.errors
               /\ totals' = usage
               /\ IF r.errors = <<>>
                  THEN Finish(r.cards, usage, [seen EXCEPT !.local_fixes = @ + r.local_fixes])
                  ELSE /\ pc' = "failed"
                       /\ result' = GenerationError(r.errors)
                       /\ calls' = [seen EXCEPT !.local_fixes = @ + r.local_fixes]
                       /\ UNCHANGED cache
           \* lines 1249-1265: the first card of the reply replaces the payload, if there is one
           Replaced(fixed_cards) ==
               Settled(Processed(IF fixed_cards # <<>> THEN fixed_cards ELSE cards_payload),
                       AddUsage(totals, Usage.fix))
       IN IF reply.raises = "RuntimeError"
          THEN /\ pc' = "failed"
               /\ result' = GenerationError(StageError("fix"))
               /\ calls' = seen
               /\ UNCHANGED <<cache, cards_payload, errors, totals>>
          ELSE IF reply.raises # ""
          THEN /\ pc' = "crashed"
               /\ result' = [status |-> reply.raises]
               /\ calls' = seen
               /\ UNCHANGED <<cache, cards_payload, errors, totals>>
          ELSE Replaced([i \in DOMAIN Take(reply.cards, 1) |->
                            normalized_card(reply.cards[i], facts)])
    /\ UNCHANGED <<clock, content, highlights, types, focus_mode, force_refresh, timeline,
                   facts, rl_vars>>

\* the caller has the result or the exception; the next invocation may begin
Return ==
    /\ pc \in {"done", "failed", "crashed"}
    /\ pc' = "idle"
    /\ calls' = NoCalls
    /\ result' = NoResult
    /\ facts' = NoFacts
    /\ cards_payload' = <<>>
    /\ errors' = <<>>
    /\ totals' = NoUsage
    /\ force_refresh' = FALSE
    /\ timeline' = <<>>
    /\ UNCHANGED <<clock, cache, content, highlights, types, focus_mode, rl_vars>>

ClockValues == {0, CacheTTL, CacheTTL + 1}

\* time passes between invocations; it is read at the cache check and at the cache write
Tick ==
    /\ pc = "idle"
    /\ \E t \in ClockValues : t > clock /\ clock' = t
    /\ UNCHANGED <<pipeline_vars, rl_vars>>

----------------------------------------------------------------------------
(***************************************************************************)
(* The endpoint and its rate limiter (app/routers/ai.py).  A request is a   *)
(* coroutine of the event loop; the model lets the other requests run      *)
(* between any two steps of a request, which covers every schedule of the  *)
(* loop (it switches coroutines at awaits only).                           *)
(***************************************************************************)

MaxRequests == 4

Identities == {"user:1", "ip:10.0.0.1"}

\* the moments at which requests arrive, around the edge of one window
ArrivalTimes == {0, 1, RateLimitWindow - 1, RateLimitWindow, RateLimitWindow + 1}

InitRateLimit ==
    /\ rl_state = [k \in Identities |-> <<>>]
    /\ rl_lock = [holder |-> 0, waiters |-> <<>>]
    /\ rl_proc = [p \in 1..MaxRequests |-> [pc |-> "new", key |-> "", now |-> 0]]
    /\ rl_log = [k \in Identities |-> <<>>]

\* generate_endpoint is entered: _enforce_rate_limit reads the time and asks for the lock.
\* asyncio.Lock serves its waiters in the order in which they asked.
Arrive(p, k) ==
    /\ rl_proc[p].pc = "new"
    /\ \A q \in 1..(p - 1) : rl_proc[q].pc # "new"
    /\ rl_proc' = [rl_proc EXCEPT ![p] = [pc |-> "waiting", key |-> k, now |-> clock]]
    /\ rl_lock' = [rl_lock EXCEPT !.waiters = Append(@, p)]
    /\ UNCHANGED <<clock, pipeline_vars, rl_state, rl_log>>

\* Acquire without the lock: the block of lines 135-140 is entered whoever holds it
Acquire_unlocked(p) ==
    /\ rl_proc[p].pc = "waiting"
    /\ rl_lock.waiters # <<>> /\ Head(rl_lock.waiters) = p
    /\ rl_lock' = [holder |-> p, waiters |-> Tail(rl_lock.waiters)]
    /\ rl_proc' = [rl_proc EXCEPT ![p].pc = "check"]
    /\ UNCHANGED <<clock, pipeline_vars, rl_state, rl_log>>

\* async with _RATE_LIMIT_LOCK
Acquire(p) ==
    /\ rl_proc[p].pc = "waiting"
    /\ rl_lock.holder = 0
    /\ rl_lock.waiters # <<>> /\ Head(rl_lock.waiters) = p
    /\ rl_lock' = [holder |-> p, waiters |-> Tail(rl_lock.waiters)]
    /\ rl_proc' = [rl_proc EXCEPT ![p].pc = "check"]
    /\ UNCHANGED <<clock, pipeline_vars, rl_state, rl_log>>

\* Check with the comparison of line 137 as <=: a timestamp exactly one window old is kept
Check_keeps_edge(p) ==
    /\ rl_proc[p].pc = "check"
    /\ LET k == rl_proc[p].key
           entries == SelectSeq(rl_state[k], LAMBDA stamp : rl_proc[p].now - stamp <= RateLimitWindow)
       IN /\ rl_state' = [rl_state EXCEPT ![k] = entries]
          /\ IF Len(entries) >= RateLimitQuota
             THEN /\ rl_proc' = [rl_proc EXCEPT ![p].pc = "rejected"]
                  /\ rl_lock' = [rl_lock EXCEPT !.holder = 0]
             ELSE /\ rl_proc' = [rl_proc EXCEPT ![p].pc = "record"]
                  /\ UNCHANGED rl_lock
    /\ UNCHANGED <<clock, pipeline_vars, rl_log>>

\* lines 136-139: the stale timestamps are dropped, then the quota is checked; a request
\* over the quota leaves with 429 and the lock is released
Check(p) ==
    /\ rl_proc[p].pc = "check"
    /\ LET k == rl_proc[p].key
           entries == SelectSeq(rl_state[k], LAMBDA stamp : rl_proc[p].now - stamp < RateLimitWindow)
       IN /\ rl_state' = [rl_state EXCEPT ![k] = entries]
          /\ IF Len(entries) >= RateLimitQuota
             THEN /\ rl_proc' = [rl_proc EXCEPT ![p].pc = "rejected"]
                  /\ rl_lock' = [rl_lock EXCEPT !.holder = 0]
             ELSE /\ rl_proc' = [rl_proc EXCEPT ![p].pc = "record"]
                  /\ UNCHANGED rl_lock
    /\ UNCHANGED <<clock, pipeline_vars, rl_log>>

\* line 140: the timestamp is recorded; the lock is released on leaving the block
Record(p) ==
    /\ rl_proc[p].pc = "record"
    /\ rl_state' = [rl_state EXCEPT ![rl_proc[p].key] = Append(@, rl_proc[p].now)]
    /\ rl_log' = [rl_log EXCEPT ![rl_proc[p].key] = Append(@, rl_proc[p].now)]
    /\ rl_lock' = [rl_lock EXCEPT !.holder = 0]
    /\ rl_proc' = [rl_proc EXCEPT ![p].pc = "admitted"]
    /\ UNCHANGED <<clock, pipeline_vars>>

\* lines 169-178: generate_endpoint goes on to generate_cards
Invoke(p) ==
    /\ rl_proc[p].pc = "admitted"
    /\ rl_proc' = [rl_proc EXCEPT ![p].pc = "generating"]
    /\ UNCHANGED <<clock, pipeline_vars, rl_state, rl_lock, rl_log>>

TickRL ==
    /\ \E t \in ArrivalTimes : t > clock /\ clock' = t
    /\ UNCHANGED <<pipeline_vars, rl_vars>>

Init ==
    /\ clock = 0
    /\ cache = <<>>
    /\ \E r \in Requests :
          /\ content = r.content
          /\ highlights = r.highlights
          /\ types = r.types
          /\ focus_mode = r.focus_mode
    /\ force_refresh = FALSE
    /\ timeline = <<>>
    /\ pc = "idle"
    /\ facts = NoFacts
    /\ cards_payload = <<>>
    /\ errors = <<>>
    /\ totals = NoUsage
    /\ result = NoResult
    /\ calls = NoCalls
    /\ InitRateLimit

Next ==
    \/ \E fr \in BOOLEAN, tl \in UserTimelines : Start(fr, tl)
    \/ \E reply \in ExtractReplies : Extract(reply)
    \/ \E reply \in OracleReplies(SingleType) : GenerateOne(reply)
    \/ \E reply \in OracleReplies(SingleType) : Fallback(reply)
    \/ \E reply \in OracleReplies(SingleType) : Fix(reply)
    \/ Return
    \/ Tick

Spec == Init /\ [][Next]_vars

InitRL == Init /\ types = <<"OX">> /\ focus_mode = "timeline"

\* the timeline argument of a CLOZE request: absent, the caller's events, or events without
\* a year, which lines 1087-1093 leave out
ClozeTimelines == UserTimelines \cup { <<[label |-> <<"imjinwaeran">>], [label |-> LabelGeonguk]>> }

\* generate_cards is asked for a CLOZE card, in highlight mode or in timeline mode
InitCloze ==
    /\ clock = 0
    /\ cache = <<>>
    /\ content = <<" ", "Sejong", " ", "1443", "\n", "Joseon">>
    /\ highlights \in { <<>>, << <<" ", "Sejong">>, <<"hunminjeongeum">> >> }
    /\ types = <<"cloze">>
    /\ focus_mode \in {"highlight", "timeline"}
    /\ force_refresh = FALSE
    /\ timeline = <<>>
    /\ pc = "idle"
    /\ facts = NoFacts
    /\ cards_payload = <<>>
    /\ errors = <<>>
    /\ totals = NoUsage
    /\ result = NoResult
    /\ calls = NoCalls
    /\ InitRateLimit

NextCloze ==
    \/ \E fr \in BOOLEAN, tl \in ClozeTimelines : Start(fr, tl)
    \/ \E reply \in ExtractReplies : Extract(reply)
    \/ \E reply \in OracleReplies(SingleType) : GenerateOne(reply)
    \/ \E reply \in OracleReplies(SingleType) : Fallback(reply)
    \/ \E reply \in OracleReplies(SingleType) : Fix(reply)
    \/ Return
    \/ Tick

SpecCloze == InitCloze /\ [][NextCloze]_vars

NextRL ==
    \/ \E p \in 1..MaxRequests, k \in Identities : Arrive(p, k)
    \/ \E p \in 1..MaxRequests : Acquire(p)
    \/ \E p \in 1..MaxRequests : Check(p)
    \/ \E p \in 1..MaxRequests : Record(p)
    \/ \E p \in 1..MaxRequests : Invoke(p)
    \/ TickRL

SpecRL == InitRL /\ [][NextRL]_vars

----------------------------------------------------------------------------
(***************************************************************************)
(* Requests with the same arguments in generate_cards at the same time.    *)
(* _read_cache and _write_cache have no await in them, so the loop runs    *)
(* each of them without a break; the awaits of the oracle calls lie        *)
(* between the cache check of a request and its cache write, and the other *)
(* requests run there.  A request that has left generate_cards keeps in    *)
(* rl_proc the payload it was given; one that wrote keeps the time of its  *)
(* write and how many writes there had been.                               *)
(***************************************************************************)

\* the requests have been admitted, half of them for each identity, all at time 0
InitCache ==
    /\ clock = 0
    /\ cache = <<>>
    /\ content = <<"Sejong">> /\ highlights = <<>> /\ types = <<"OX">> /\ focus_mode = "highlight"
    /\ force_refresh = FALSE
    /\ timeline = <<>>
    /\ pc = "idle"
    /\ facts = NoFacts
    /\ cards_payload = <<>>
    /\ errors = <<>>
    /\ totals = NoUsage
    /\ result = NoResult
    /\ calls = NoCalls
    /\ rl_lock = [holder |-> 0, waiters |-> <<>>]
    /\ rl_proc = [p \in 1..MaxRequests |->
                    [pc |-> "generating", now |-> 0,
                     key |-> IF p % 2 = 1 THEN "user:1" ELSE "ip:10.0.0.1"]]
    /\ rl_state = [k \in Identities |->
                     [i \in 1..Cardinality({p \in 1..MaxRequests : rl_proc[p].key = k}) |-> 0]]
    /\ rl_log = rl_state

\* lines 1003-1025: the cache check; a hit is returned, a miss goes on to the oracle
CheckCache(p) ==
    /\ rl_proc[p].pc = "generating"
    /\ LET Read(cached_payload) ==
               IF cached_payload # <<>>
               THEN [pc |-> "served", key |-> rl_proc[p].key, now |-> rl_proc[p].now,
                     payload |-> cached_payload[1]]
               ELSE [rl_proc[p] EXCEPT !.pc = "computing"]
       IN rl_proc' = [rl_proc EXCEPT ![p] = Read(_read_cache(CacheKey))]
    /\ UNCHANGED <<clock, pipeline_vars, rl_state, rl_lock, rl_log>>

\* lines 1279-1292, after the last await: the payload is written and returned
WriteCache(p, cards) ==
    /\ rl_proc[p].pc = "computing"
    /\ validate_cards(cards) = <<>>
    /\ LET payload == Success(cards, NoFacts, Meta(FALSE, AddUsage(Usage.extract, Usage.generate)))
       IN /\ cache' = _write_cache(CacheKey, payload)
          /\ rl_proc' = [rl_proc EXCEPT ![p] =
                            [pc |-> "returned", key |-> rl_proc[p].key, now |-> rl_proc[p].now,
                             payload |-> payload, stored_at |-> clock,
                             writes_before |->
                                 Cardinality({q \in 1..MaxRequests : rl_proc[q].pc = "returned"})]]
    /\ UNCHANGED <<clock, content, highlights, types, focus_mode, force_refresh, timeline,
                   pc, facts, cards_payload, errors, totals, result, calls,
                   rl_state, rl_lock, rl_log>>

NextCache ==
    \/ \E p \in 1..MaxRequests : CheckCache(p)
    \/ \E p \in 1..MaxRequests, cards \in {<<GoodOX>>, <<[GoodOX EXCEPT !.answer = FALSE]>>} :
          WriteCache(p, cards)
    \/ Tick

SpecCache == InitCache /\ [][NextCache]_vars

----------------------------------------------------------------------------
(***************************************************************************)
(* The validation engine and local repair on their own: validate_cards and *)
(* _apply_local_fixes are applied to one payload, as generate_cards applies *)
(* them (lines 1217-1237), and local repair is applied a second time with  *)
(* the same error list.  pc tells what has been applied to cards_payload;  *)
(* result keeps what the step before had.                                  *)
(***************************************************************************)

\* payloads under validation: the lists the oracle returns for the six card types
Payloads ==
    UNION {CardLists(card_type) : card_type \in {"MCQ", "OX", "ORDER"}}
    \cup { <<SemDupMCQ>>, <<AliasAnswerMCQ>>, <<[AliasAnswerMCQ EXCEPT !.answer_index = 1]>>,
           <<MismatchMCQ>>, <<DupMCQ, BadOX>>, <<ShuffledORDER>>, <<RepeatORDER>> }
    \cup {<<card>> : card \in MatchCards \cup ClozeCards \cup KindsORDER}
    \cup { <<GoodOX, [type |-> "notobject"], [type |-> "ESSAY", options |-> <<>>]>>,
           <<[type |-> "unhashable"]>>, <<[type |-> "SHORT", answer |-> <<>>]>>,
           <<[type |-> "SHORT", prompt |-> LabelChangje, answer |-> <<"hunminjeongeum">>,
              rubric |-> [aliases |-> << <<" ", "hangul">>, <<"(", "hangul", ")">>, <<" ">> >>]]>>,
           <<[type |-> "SHORT", prompt |-> LabelChangje, answer |-> <<"hunminjeongeum">>,
              rubric |-> [aliases |-> << <<"hangul">> >>]]>>,
           <<[DupMCQ EXCEPT !.options = << <<" ">>, <<"1443">> >>, !.answer_index = 7]>>,
           <<[DupMCQ EXCEPT !.answer_index = 2]>> }
    \cup {<<card>> : card \in RepeatMatchCards}

InitCards ==
    /\ clock = 0
    /\ cache = <<>>
    /\ content = <<>> /\ highlights = <<>> /\ types = <<"mcq">> /\ focus_mode = "highlight"
    /\ force_refresh = FALSE
    /\ timeline = <<>>
    /\ pc = "payload"
    /\ facts = NoFacts
    /\ cards_payload \in Payloads
    /\ errors = <<>>
    /\ totals = NoUsage
    /\ result = NoResult
    /\ calls = NoCalls
    /\ InitRateLimit

\* lines 1219-1225: every card of the payload normalized and whitelisted
Normalize ==
    /\ pc = "payload"
    /\ pc' = "normalized"
    /\ cards_payload' = [i \in DOMAIN cards_payload |-> normalized_card(cards_payload[i], facts)]
    /\ UNCHANGED <<clock, cache, content, highlights, types, focus_mode, force_refresh, timeline,
                   facts, errors, totals, result, calls, rl_vars>>

\* line 1228: validate_cards(cards_payload)
Validate ==
    /\ pc \in {"payload", "normalized"}
    /\ IF validate_raises(cards_payload)
       THEN /\ pc' = "raised"
            /\ result' = [status |-> "TypeError"]
            /\ UNCHANGED errors
       ELSE /\ pc' = "validated"
            /\ errors' = validate_cards(cards_payload)
            /\ result' = [status |-> "validated"]
    /\ cards_payload' = IF validate_raises(cards_payload) THEN cards_payload
                        ELSE validated_cards(cards_payload)
    /\ UNCHANGED <<clock, cache, content, highlights, types, focus_mode, force_refresh, timeline,
                   facts, totals, calls, rl_vars>>

\* line 1231: _apply_local_fixes(cards_payload, errors)
LocalFix ==
    /\ pc = "validated" /\ errors # <<>>
    /\ pc' = "fixed"
    /\ cards_payload' = _apply_local_fixes(cards_payload, errors, FALSE)[1]
    /\ result' = [status |-> "fixed", before |-> cards_payload]
    /\ UNCHANGED <<clock, cache, content, highlights, types, focus_mode, force_refresh, timeline,
                   facts, errors, totals, calls, rl_vars>>

\* _apply_local_fixes once more, with the error list of the first run
LocalFixAgain ==
    /\ pc = "fixed"
    /\ pc' = "fixed_again"
    /\ cards_payload' = _apply_local_fixes(cards_payload, errors, FALSE)[1]
    /\ result' = [status |-> "fixed_again", before |-> cards_payload]
    /\ UNCHANGED <<clock, cache, content, highlights, types, focus_mode, force_refresh, timeline,
                   facts, errors, totals, calls, rl_vars>>

\* line 1237: the repaired payload is validated again
Revalidate ==
    /\ pc = "fixed"
    /\ pc' = "revalidated"
    /\ errors' = validate_cards(cards_payload)
    /\ cards_payload' = validated_cards(cards_payload)
    /\ result' = [status |-> "revalidated", first_errors |-> errors]
    /\ UNCHANGED <<clock, cache, content, highlights, types, focus_mode, force_refresh, timeline,
                   facts, totals, calls, rl_vars>>

NextCards ==
    \/ Normalize
    \/ Validate
    \/ LocalFix
    \/ LocalFixAgain
    \/ Revalidate

SpecCards == InitCards /\ [][NextCards]_vars

----------------------------------------------------------------------------
(* The JSON recovery parser (app/llm/client.py).  The raw text of the oracle *)
(* is a sequence of characters; the characters of the model are the braces,  *)
(* the brackets, the double quote, the backslash, the colon, the comma, the  *)
(* blank, the digit 1 and the letters k and x.  A parsed object is the       *)
(* function from its keys to its values, a key and a value being the JSON    *)
(* text that denotes them, written without blanks.                           *)

\* json.loads(raw): <<>> when it raises JSONDecodeError, otherwise <<value>> with the kind
\* of the value, its text and, for an object, its members
json_loads(raw) ==
    LET n == Len(raw)
        Fail == [ok |-> FALSE, pos |-> 0, kind |-> "", canon |-> <<>>, members |-> <<>>]
        Done(pos, kind, canon, members) ==
            [ok |-> TRUE, pos |-> pos, kind |-> kind, canon |-> canon, members |-> members]
        RECURSIVE SkipWs(_), Str(_, _), Num(_, _), Value(_), Members(_, _, _), Elements(_, _)
        SkipWs(i) == IF i <= n /\ raw[i] = " " THEN SkipWs(i + 1) ELSE i
        \* the characters of a string after its opening quote; an escape is \" or \\
        Str(i, acc) ==
            IF i > n THEN Fail
            ELSE IF raw[i] = "\"" THEN Done(i + 1, "string", Append(acc, "\""), <<>>)
            ELSE IF raw[i] = "\\"
            THEN IF i + 1 <= n /\ raw[i + 1] \in {"\"", "\\"}
                 THEN Str(i + 2, acc \o <<raw[i], raw[i + 1]>>) ELSE Fail
            ELSE Str(i + 1, Append(acc, raw[i]))
        Num(i, acc) ==
            IF i <= n /\ raw[i] = "1" THEN Num(i + 1, Append(acc, "1"))
            ELSE Done(i, "number", acc, <<>>)
        \* the members after "{" or after ",": a key is due at i
        Members(i, canon, members) ==
            IF i > n \/ raw[i] # "\"" THEN Fail
            ELSE LET AfterValue(key, value) ==
                         LET j == SkipWs(value.pos)
                             text == canon \o key.canon \o <<":">> \o value.canon
                             dict == [k \in DOMAIN members \cup {key.canon} |->
                                         IF k = key.canon THEN value.canon ELSE members[k]]
                         IN IF ~value.ok \/ j > n THEN Fail
                            ELSE IF raw[j] = "}" THEN Done(j + 1, "object", Append(text, "}"), dict)
                            ELSE IF raw[j] = "," THEN Members(SkipWs(j + 1), Append(text, ","), dict)
                            ELSE Fail
                     AfterKey(key) ==
                         IF ~key.ok \/ SkipWs(key.pos) > n \/ raw[SkipWs(key.pos)] # ":" THEN Fail
                         ELSE AfterValue(key, Value(SkipWs(key.pos) + 1))
                 IN AfterKey(Str(i + 1, <<"\"">>))
        \* the elements after "[" or after ","
        Elements(i, canon) ==
            LET AfterValue(value) ==
                    LET j == SkipWs(value.pos)
                    IN IF ~value.ok \/ j > n THEN Fail
                       ELSE IF raw[j] = "]"
                       THEN Done(j + 1, "array", canon \o value.canon \o <<"]">>, <<>>)
                       ELSE IF raw[j] = "," THEN Elements(j + 1, canon \o value.canon \o <<",">>)
                       ELSE Fail
            IN AfterValue(Value(i))
        Value(i0) ==
            LET At(i) ==
                    IF i > n THEN Fail
                    ELSE IF raw[i] = "{"
                    THEN IF SkipWs(i + 1) <= n /\ raw[SkipWs(i + 1)] = "}"
                         THEN Done(SkipWs(i + 1) + 1, "object", <<"{", "}">>, <<>>)
                         ELSE Members(SkipWs(i + 1), <<"{">>, <<>>)
                    ELSE IF raw[i] = "["
                    THEN IF SkipWs(i + 1) <= n /\ raw[SkipWs(i + 1)] = "]"
                         THEN Done(SkipWs(i + 1) + 1, "array", <<"[", "]">>, <<>>)
                         ELSE Elements(i + 1, <<"[">>)
                    ELSE IF raw[i] = "\"" THEN Str(i + 1, <<"\"">>)
                    ELSE IF raw[i] = "1" THEN Num(i, <<>>)
                    ELSE Fail
            IN At(SkipWs(i0))
        Whole(value) ==
            IF value.ok /\ SkipWs(value.pos) = n + 1
            THEN <<[kind |-> value.kind, canon |-> value.canon, members |-> value.members]>>
            ELSE <<>>
    IN Whole(Value(1))

\* Optional text: the first stretch from a "{" at depth 0 to the "}" that closes it,
\* quotes and escapes being followed as the scanner follows them
_extract_json_object(raw) ==
    LET RECURSIVE Scan(_, _, _, _, _)
        Scan(idx, start_index, depth, in_string, escape) ==
            IF idx > Len(raw) THEN <<>>
            ELSE IF escape THEN Scan(idx + 1, start_index, depth, in_string, FALSE)
            ELSE IF raw[idx] = "\\" THEN Scan(idx + 1, start_index, depth, in_string, in_string)
            ELSE IF raw[idx] = "\"" THEN Scan(idx + 1, start_index, depth, ~in_string, FALSE)
            ELSE IF in_string THEN Scan(idx + 1, start_index, depth, in_string, FALSE)
            ELSE IF raw[idx] = "{"
            THEN Scan(idx + 1, IF depth = 0 THEN idx ELSE start_index, depth + 1, FALSE, FALSE)
            ELSE IF raw[idx] = "}" /\ depth > 0
            THEN IF depth = 1 THEN <<SubSeq(raw, start_index, idx)>>
                 ELSE Scan(idx + 1, start_index, depth - 1, FALSE, FALSE)
            ELSE Scan(idx + 1, start_index, depth, FALSE, FALSE)
    IN Scan(1, 0, 0, FALSE, FALSE)

\* json.loads(text) is a dict
IsObject(text) == json_loads(text) # <<>> /\ json_loads(text)[1].kind = "object"

\* lines 386-396: the longest prefix of raw.strip() that ends in "}" and is an object
TruncatedTail(raw) ==
    LET trimmed == Strip(raw)
        ends == {idx \in DOMAIN trimmed : trimmed[idx] = "}" /\ IsObject(Take(trimmed, idx))}
    IN IF ends = {} THEN <<>>
       ELSE json_loads(Take(trimmed, CHOOSE idx \in ends : \A other \in ends : other <= idx))[1].members

\* the dict that _safe_json_loads returns; the scan and the truncation are in the handler
\* of JSONDecodeError, so a text that is a JSON value but no object gives {}
_safe_json_loads(raw) ==
    LET Recovered(snippet) ==
            IF snippet # <<>> /\ IsObject(snippet[1]) THEN json_loads(snippet[1])[1].members
            ELSE TruncatedTail(raw)
    IN IF json_loads(raw) # <<>>
       THEN IF IsObject(raw) THEN json_loads(raw)[1].members ELSE <<>>
       ELSE Recovered(_extract_json_object(raw))

\* raw texts of the oracle: an object, with text before it and after it, cut off anywhere
RawTexts ==
    LET member == <<"\"", "k", "\"", ":", "1">>
        object == <<"{">> \o member \o <<"}">>
        objects == { object,
                     <<"{", "}">>,
                     <<"{", "\"", "k", "\"", ":">> \o object \o <<"}">>,
                     <<"{", "\"", "}", "\"", ":", "1", "}">>,
                     <<"{", "\"", "k", "\"", ":", "\"", "\\", "\"", "}", "\"", " ", "}">>,
                     <<"{">> \o member \o <<",", " ">> \o member \o <<"1", "}">>,
                     <<"{", "\"", "k", "\"", ":", "[", "{", "}", ",", "1", "]", "}">> }
        before == { <<>>, <<"x", " ">>, <<"[">>, <<"\"">>, <<"}">>, <<"{">>, <<"1", " ">>, <<"\\">> }
        after == { <<>>, <<" ", "x">>, <<"]">>, <<"}">>, <<"{">>, <<"\"">>, <<",">>, <<" ">> \o object }
        whole == {b \o o \o a : b \in before, o \in objects, a \in after}
    IN UNION {{Take(text, len) : len \in 0..Len(text)} : text \in whole}

InitJson ==
    /\ clock = 0
    /\ cache = <<>>
    /\ content \in RawTexts
    /\ highlights = <<>> /\ types = <<"mcq">> /\ focus_mode = "highlight"
    /\ force_refresh = FALSE
    /\ timeline = <<>>
    /\ pc = "raw_text"
    /\ facts = NoFacts
    /\ cards_payload = <<>>
    /\ errors = <<>>
    /\ totals = NoUsage
    /\ result = NoResult
    /\ calls = NoCalls
    /\ InitRateLimit

\* _call_responses, line 293: payload = _safe_json_loads(raw_text)
SafeJsonLoads ==
    /\ pc = "raw_text"
    /\ pc' = "payload_read"
    /\ result' = [status |-> "payload_read", payload |-> _safe_json_loads(content)]
    /\ UNCHANGED <<clock, cache, content, highlights, types, focus_mode, force_refresh, timeline,
                   facts, cards_payload, errors, totals, calls, rl_vars>>

SpecJson == InitJson /\ [][SafeJsonLoads]_vars

----------------------------------------------------------------------------
(* Properties *)

Returned == pc = "done" /\ result.status = "ok"

GenerateCalls == calls.generate_one + calls.generate_cards

\* C1: every successful return of generate_cards carries exactly one card, of the requested
\* type (the first entry of types, upper-cased), that passes validate_cards.
C1_OneValidCardOfRequestedType ==
    Returned => /\ Len(result.cards) = 1
                /\ result.cards[1].type = SingleType
                /\ validate_cards(result.cards) = <<>>

\* the timeline at hand: the caller's in timeline focus mode, else the one extraction produced
AvailableTimeline ==
    IF FocusModeNormalized = "timeline" /\ timeline # <<>> THEN timeline
    ELSE IF calls.reply # <<>> THEN Get(calls.reply[1], "timeline", <<>>)
    ELSE <<>>

\* the years of the entries of the available timeline that carry the label
YearsOf(label) ==
    {AvailableTimeline[i].year : i \in {j \in DOMAIN AvailableTimeline :
        /\ Has(AvailableTimeline[j], "year") /\ Has(AvailableTimeline[j], "label")
        /\ Strip(AvailableTimeline[j].label) = label}}

\* C2: when ORDER is requested and a timeline with at least 3 entries bearing integer years
\* is available, the generation oracle is never invoked and the ORDER card returned has its
\* items in ascending order of year.
C2_OrderFromTimelineWithoutOracle ==
    (/\ SingleType = "ORDER"
     /\ calls.extract > 0
     /\ Cardinality({i \in DOMAIN AvailableTimeline : Has(AvailableTimeline[i], "year")}) >= 3)
    => /\ GenerateCalls = 0
       /\ Returned => /\ Len(result.cards) = 1
                      /\ result.cards[1].type = "ORDER"
                      /\ \A i, j \in DOMAIN result.cards[1].items :
                            i < j => \A yi \in YearsOf(result.cards[1].items[i]),
                                        yj \in YearsOf(result.cards[1].items[j]) : yi <= yj

\* C3: after a successful return with cached = false the result is stored under the hash key
\* of the request: an identical call made now, without forced refresh, reads the same cards
\* and facts from the cache.
C3_SuccessIsCached ==
    (Returned /\ ~result.meta.cached)
    => /\ _read_cache(CacheKey) # <<>>
       /\ _read_cache(CacheKey)[1].cards = result.cards
       /\ _read_cache(CacheKey)[1].facts = result.facts

\* the cache holds an entry for the request that is not older than the TTL
FreshEntry == CacheKey \in DOMAIN cache /\ clock - cache[CacheKey].stored_at <= CacheTTL

\* C4: without forced refresh, an entry not older than the TTL is returned as it is, with
\* cached = true and zero tokens and latency, without any oracle call or cache write; an
\* entry older than the TTL is never returned.
C4_CacheHitShortCircuits ==
    /\ (pc # "idle" /\ ~force_refresh /\ calls.write = 0 /\ FreshEntry)
       => /\ Returned
          /\ result.cards = cache[CacheKey].payload.cards
          /\ result.facts = cache[CacheKey].payload.facts
          /\ result.meta = [cached |-> TRUE, tokens_in |-> 0, tokens_out |-> 0, latency_ms |-> 0]
          /\ calls = NoCalls
    /\ (Returned /\ result.meta.cached) => (~force_refresh /\ FreshEntry /\ calls = NoCalls)

C4_Witness ==
    /\ Returned /\ result.meta.cached
    /\ clock - cache[CacheKey].stored_at = CacheTTL

\* the timestamps recorded for identity k that lie less than one window before now
RecordedWithin(k, now) ==
    Cardinality({i \in DOMAIN rl_log[k] : now - rl_log[k][i] < RateLimitWindow})

\* C5: a request passes the check of _enforce_rate_limit if and only if fewer than quota
\* requests of its identity were admitted within the preceding window; a request that is
\* turned away stays turned away and never reaches generate_cards.
C5_SlidingWindowAdmission ==
    [][\A p \in 1..MaxRequests :
         /\ (rl_proc[p].pc = "check" /\ rl_proc'[p].pc # "check")
            => /\ rl_proc'[p].pc \in {"record", "rejected"}
               /\ rl_proc'[p].pc = "record"
                  <=> RecordedWithin(rl_proc[p].key, rl_proc[p].now) < RateLimitQuota
         /\ rl_proc[p].pc = "rejected" => rl_proc'[p].pc = "rejected"
         /\ rl_proc'[p].pc = "generating" => rl_proc[p].pc \in {"admitted", "generating"}]_vars

C5_Witness ==
    \E p \in 1..MaxRequests :
        /\ rl_proc[p].pc = "rejected"
        /\ RecordedWithin(rl_proc[p].key, rl_proc[p].now) = RateLimitQuota
        /\ \E q \in 1..MaxRequests : rl_proc[q].pc = "generating" /\ rl_proc[q].key = rl_proc[p].key

\* C6: check and record are one critical section: at most one request is between its check
\* and its record, and the timestamps recorded for an identity within one window never
\* exceed the quota.
C6_CheckAndRecordAtomic ==
    /\ Cardinality({p \in 1..MaxRequests : rl_proc[p].pc \in {"check", "record"}}) <= 1
    /\ \A k \in Identities :
          /\ Len(rl_state[k]) <= RateLimitQuota
          /\ \A i \in DOMAIN rl_log[k] :
                Cardinality({j \in DOMAIN rl_log[k] :
                                /\ rl_log[k][j] <= rl_log[k][i]
                                /\ rl_log[k][i] - rl_log[k][j] < RateLimitWindow}) <= RateLimitQuota

C6_Witness ==
    \E p, q \in 1..MaxRequests :
        /\ rl_proc[p].pc = "record" /\ rl_proc[q].pc = "waiting"
        /\ rl_proc[p].key = rl_proc[q].key
        /\ Len(rl_state[rl_proc[p].key]) = RateLimitQuota - 1

\* the invocation failed on the validation that follows the oracle fix
FailedAfterFix ==
    /\ pc = "failed" /\ calls.fix > 0
    /\ result.status = "GenerationError"
    /\ result.errors # StageError("fix")

\* C7: when the card is still invalid after generation, local repair and the oracle fix,
\* GenerationError carries the complete and non-empty error list of the last validation,
\* nothing is written to the cache and no stage is run a second time.
C7_FailCarriesLastErrors ==
    /\ (pc = "failed" /\ calls.fix > 0) => result.status = "GenerationError"
    /\ FailedAfterFix
       => /\ result.errors # <<>>
          /\ result.errors = validate_cards(cards_payload)
          /\ calls.write = 0
          /\ calls.extract = 1 /\ calls.generate_one = 1 /\ calls.generate_cards <= 1
          /\ calls.fix = 1

C7_Witness ==
    /\ FailedAfterFix
    /\ Len(cards_payload) = 1 /\ cards_payload[1].type = "MCQ"
    /\ result.errors[1].code = "mcq_unnatural_question"

\* the extraction call raised, or neither its output nor the highlights nor the content
\* give a statement
Unusable(reply) ==
    \/ reply = <<>>
    \/ /\ \A i \in DOMAIN Get(reply[1], "facts", <<>>) :
             ~(Has(reply[1].facts[i], "statement") /\ Strip(reply[1].facts[i].statement) # <<>>)
       /\ Strip(content) = <<>>
       /\ \A i \in DOMAIN highlights : Strip(highlights[i]) = <<>>

\* C8: when the extraction call fails or yields no usable facts even after the fallbacks,
\* generate_cards fails with the extraction failure after exactly one extraction attempt,
\* without any generation call, fix call or cache write.
C8_ExtractionFailureIsFatal ==
    (calls.extract > 0 /\ Unusable(calls.reply))
    => /\ pc = "failed"
       /\ result = GenerationError(StageError("extract"))
       /\ calls.extract = 1
       /\ GenerateCalls = 0 /\ calls.fix = 0 /\ calls.write = 0

C8_Witness ==
    /\ pc = "failed" /\ calls.extract = 1
    /\ calls.reply # <<>> /\ Unusable(calls.reply)

\* the calls of the generate stage that raised
GenerateRaised == Len(SelectSeq(calls.raised, LAMBDA r : r[1] = "generate"))

\* C9: an exception of agenerate_one is followed by exactly one call of agenerate_cards; if
\* that call returns, its cards are normalized and validated, and if it raises too, the
\* invocation fails with the generation error without another generation or fix call.
C9_OneFallbackAttempt ==
    /\ calls.generate_one <= 1 /\ calls.generate_cards <= 1
    /\ calls.generate_cards = 1 <=> GenerateRaised >= 1 /\ pc # "fallback"
    /\ pc = "fallback" <=> (calls.generate_one = 1 /\ calls.generate_cards = 0
                            /\ GenerateRaised = 1)
    /\ (calls.generate_cards = 1 /\ calls.fix = 0 /\ GenerateRaised = 1)
       => /\ pc \in {"done", "fix"}
          /\ errors = validate_cards(cards_payload)
          /\ pc = "done" <=> errors = <<>>
    /\ (calls.generate_cards = 1 /\ GenerateRaised = 2)
       => /\ pc = "failed"
          /\ result = GenerationError(StageError("generate"))
          /\ calls.write = 0

C9_Witness ==
    /\ calls.generate_one = 1 /\ calls.generate_cards = 1 /\ GenerateRaised = 1
    /\ pc = "done" /\ Len(result.cards) = 1

\* C10: when the oracle's text in the generate or the fix stage is no JSON object, or the
\* call times out, the caller of generate_cards gets a valid result or GenerationError, never
\* another exception.
C10_OnlyStructuredFailures ==
    (/\ pc \in {"done", "failed", "crashed"}
     /\ \E i \in DOMAIN calls.raised : calls.raised[i][2] \in {"ValueError", "APITimeoutError"})
    => result.status \in {"ok", "GenerationError"}

\* the options of card i of cards_payload hold two that are the same under _canon
SemanticDuplicates(card) ==
    \E i, j \in DOMAIN card.options :
        i # j /\ _canon(Strip(card.options[i])) = _canon(Strip(card.options[j]))

\* C11: local repair is idempotent: run a second time with the same error list on the
\* payload it has repaired, it changes nothing (question, options, answer_index, clozes).
C11_LocalRepairIdempotent ==
    pc = "fixed_again" => cards_payload = result.before

\* C12: for an MCQ reported for semantic duplicate options, the options that local repair
\* leaves hold no two semantic duplicates, and the validation that follows does not report
\* mcq_option_semantic_duplicate again.
C12_SemanticDuplicatesRepaired ==
    pc = "revalidated"
    => \A e \in Range(result.first_errors) :
          e.code = "mcq_option_semantic_duplicate"
          => /\ ~SemanticDuplicates(cards_payload[e.card_index + 1])
             /\ \A f \in Range(errors) :
                    ~(f.code = "mcq_option_semantic_duplicate" /\ f.card_index = e.card_index)

\* the cards that validate_cards has accepted: the payload after a validation without errors,
\* and the cards of a successful result of generate_cards
AcceptedCards ==
    IF Returned THEN result.cards
    ELSE IF pc \in {"validated", "revalidated"} /\ errors = <<>> THEN cards_payload
    ELSE <<>>

\* the entity that the explanation of the card names, <<>> when it names none
NamedEntity(card) == ExplainAnswer(Strip(Get(card, "explain", <<>>)))

\* C13: in every MCQ card that validate_cards accepts (after local repair has recomputed
\* answer_index too), when explain names an entity, answer_index is in range and
\* options[answer_index] is canonically equal to that entity.
C13_AnswerIsNamedEntity ==
    \A i \in DOMAIN AcceptedCards :
        LET card == AcceptedCards[i]
        IN (card.type = "MCQ" /\ NamedEntity(card) # <<>>)
           => /\ Has(card, "answer_index")
              /\ card.answer_index \in 0..(Len(card.options) - 1)
              /\ _canon(Strip(card.options[card.answer_index + 1])) = _canon(NamedEntity(card))

\* local repair has moved answer_index to the entity named, and the card is accepted
C13_Witness ==
    /\ pc = "revalidated" /\ errors = <<>>
    /\ \E e \in Range(result.first_errors) : e.code = "mcq_answer_mismatch"
    /\ cards_payload[1].type = "MCQ" /\ NamedEntity(cards_payload[1]) # <<>>
    /\ cards_payload[1].options[cards_payload[1].answer_index + 1] = NamedEntity(cards_payload[1])

\* sorted(xs) of a list of integers
SortedInts(xs) == SortByKey(xs, [i \in DOMAIN xs |-> <<xs[i], 0>>])

\* C14: in every ORDER card that validate_cards accepts, produced by the oracle or built
\* from the timeline, items and answer_order are not empty and sorted(answer_order) is
\* [0 .. len(items) - 1].
C14_OrderIsPermutation ==
    \A i \in DOMAIN AcceptedCards :
        LET card == AcceptedCards[i]
        IN card.type = "ORDER"
           => /\ Has(card, "items") /\ card.items # <<>>
              /\ Has(card, "answer_order") /\ card.answer_order # <<>>
              /\ SortedInts(card.answer_order) = [k \in 1..Len(card.items) |-> k - 1]

\* an accepted ORDER card whose order is not the order of the items
C14_Witness ==
    /\ pc = "validated" /\ errors = <<>> /\ cards_payload # <<>>
    /\ cards_payload[1].type = "ORDER"
    /\ cards_payload[1].answer_order # [k \in 1..Len(cards_payload[1].items) |-> k - 1]

\* C15: in every MATCH card that validate_cards accepts, every pair holds two integers that
\* are indices of left and of right, and no index of left and no index of right is in two
\* pairs.
C15_MatchPairsOneToOne ==
    \A i \in DOMAIN AcceptedCards :
        LET card == AcceptedCards[i]
        IN card.type = "MATCH"
           => \A p \in DOMAIN card.pairs :
                 /\ Len(card.pairs[p]) = 2
                 /\ PairKinds(card)[p] = <<"int", "int">>
                 /\ card.pairs[p][1] \in 0..(Len(card.left) - 1)
                 /\ card.pairs[p][2] \in 0..(Len(card.right) - 1)
                 /\ \A q \in DOMAIN card.pairs :
                        q # p => /\ card.pairs[q][1] # card.pairs[p][1]
                                 /\ card.pairs[q][2] # card.pairs[p][2]

\* an accepted MATCH card of three pairs that are not (i, i) in turn
C15_Witness ==
    /\ pc = "validated" /\ errors = <<>> /\ cards_payload # <<>>
    /\ cards_payload[1].type = "MATCH"
    /\ Len(cards_payload[1].pairs) = 3
    /\ cards_payload[1].pairs[2] # <<1, 1>>

\* C16: in every CLOZE card that validate_cards accepts, text holds one or two distinct
\* placeholders {{cN}}, and the placeholders are exactly the keys of clozes.
C16_ClozeKeysArePlaceholders ==
    \A i \in DOMAIN AcceptedCards :
        LET card == AcceptedCards[i]
            distinct == Range(Placeholders(Get(card, "text", <<>>)))
        IN card.type = "CLOZE"
           => /\ Cardinality(distinct) \in {1, 2}
              /\ distinct = DOMAIN Get(card, "clozes", <<>>)

\* local repair has removed a key that text does not hold, and the card is accepted with
\* two blanks
C16_Witness ==
    /\ pc = "revalidated" /\ errors = <<>>
    /\ \E e \in Range(result.first_errors) : e.code = "cloze_extra_key"
    /\ cards_payload[1].type = "CLOZE"
    /\ DOMAIN cards_payload[1].clozes = {"c1", "c2"}

\* the errors that the validation reported for card idx (counted from 0)
ErrorsOf(idx) == SelectSeq(errors, LAMBDA e : e.card_index = idx)

\* C17: validate_cards never raises: whatever the payload, it returns, and a card that is no
\* object or has a type that is missing or not known has exactly one error record, the one
\* that says so.
C17_ValidateNeverRaises ==
    /\ pc # "raised"
    /\ pc = "validated"
       => \A i \in DOMAIN cards_payload :
             /\ cards_payload[i].type = "notobject"
                => ErrorsOf(i - 1) = <<Err("card_not_object", i - 1)>>
             /\ cards_payload[i].type \notin {"notobject", "MCQ", "SHORT", "OX", "CLOZE", "ORDER", "MATCH"}
                => ErrorsOf(i - 1) = <<Err("unknown_type", i - 1)>>

\* MATCH was asked for and the reply of the extraction oracle has the triples for a card
TriplesExtracted ==
    SingleType = "MATCH" /\ calls.reply # <<>> /\ _match_from_triples(calls.reply[1]) # <<>>

\* C18: when MATCH is asked for and the extraction gives at least three complete triples, the
\* card is built from the triples (the subjects on the left) and the generation oracle is
\* never called: every call of agenerate_one builds the card, and the fallback is not called.
C18_MatchBuiltFromTriples ==
    TriplesExtracted
    => /\ calls.generate_one = calls.built
       /\ calls.generate_cards = 0
       /\ (pc = "done" /\ result.status = "ok")
          => /\ result.cards # <<>>
             /\ result.cards[1].type = "MATCH"
             /\ result.cards[1].left = _match_from_triples(calls.reply[1])[1].left

\* usage n times over
TimesUsage(n, usage) ==
    [tokens_in |-> n * usage.tokens_in, tokens_out |-> n * usage.tokens_out,
     latency_ms |-> n * usage.latency_ms]

\* the sum of what the oracle reported for the calls of this invocation that returned: the
\* extraction, the calls of the generate stage that called the oracle and did not raise,
\* and the fix calls that did not raise
OracleUsage ==
    AddUsage(TimesUsage(calls.extract, Usage.extract),
             AddUsage(TimesUsage(GenerateCalls - calls.built - GenerateRaised, Usage.generate),
                      TimesUsage(calls.fix - (Len(calls.raised) - GenerateRaised), Usage.fix)))

\* C19: on every successful return with cached = false, tokens_in, tokens_out and latency_ms
\* of meta are the sums over all oracle calls of the invocation (extraction, generation,
\* fix); so tokens_in is at least the tokens_in of the extraction call.
C19_MetaSumsOracleUsage ==
    (Returned /\ ~result.meta.cached)
    => /\ result.meta = Meta(FALSE, OracleUsage)
       /\ result.meta.tokens_in >= Usage.extract.tokens_in

\* C20: with force_refresh the cache is not read: even with a fresh entry under the key the
\* extraction is called again, the return says cached = false with the usage of the calls
\* made, and on success the entry under the key is replaced by the result.
C20_ForceRefreshBypassesCache ==
    (force_refresh /\ pc \in {"done", "failed", "crashed"})
    => /\ calls.extract = 1
       /\ Returned
          => /\ ~result.meta.cached
             /\ result.meta = Meta(FALSE, OracleUsage)
             /\ calls.write = 1
             /\ CacheKey \in DOMAIN cache
             /\ cache[CacheKey] = [stored_at |-> clock, payload |-> result]

\* the cards that an error with one of the MCQ codes points at
McqRepaired ==
    {e.card_index + 1 : e \in {x \in Range(errors) : x.code \in McqCodes}}
    \cap {i \in DOMAIN cards_payload : cards_payload[i].type # "notobject"}

\* C21: after the local repair has handled an MCQ code on a card, the card has exactly four
\* options, none of them blank, no two of them the same text, and an answer_index in 0..3.
C21_RepairedMcqWellFormed ==
    pc \in {"fixed", "fixed_again"}
    => \A i \in McqRepaired :
          LET options == Get(cards_payload[i], "options", <<>>)
          IN /\ Len(options) = 4
             /\ \A j \in DOMAIN options : Strip(options[j]) # <<>>
             /\ \A j, k \in DOMAIN options : options[j] = options[k] => j = k
             /\ Has(cards_payload[i], "answer_index")
             /\ cards_payload[i].answer_index \in 0..3

\* the repair has run on a card whose options held the same text twice
C21_Witness ==
    /\ pc = "fixed"
    /\ \E i \in McqRepaired :
          /\ \E e \in Range(errors) : e.code = "mcq_option_duplicate" /\ e.card_index = i - 1
          /\ \E j, k \in DOMAIN result.before[i].options :
                j # k /\ result.before[i].options[j] = result.before[i].options[k]

\* C26: the local repair keeps the designated answer of an MCQ card: when explain names no
\* entity and the text that answer_index designated is among the options after the repair,
\* answer_index designates that same text after the repair.
C26_RepairKeepsDesignatedAnswer ==
    pc = "fixed"
    => \A i \in McqRepaired :
          LET before == _normalize_card_structure(result.before[i])
              options == Get(before, "options", <<>>)
              after == cards_payload[i]
          IN /\ ExplainAnswer(Strip(Get(before, "explain", <<>>))) = <<>>
             /\ Has(before, "answer_index")
             /\ before.answer_index \in 0..(Len(options) - 1)
             /\ \E j \in DOMAIN after.options :
                   after.options[j] = Strip(options[before.answer_index + 1])
             => after.options[after.answer_index + 1] = Strip(options[before.answer_index + 1])

\* C27: a cache hit in timeline mode gives the cards of a request with the same timeline
\* argument.  Line 1098 puts the events of the invocation into the facts it returns and
\* stores, and the events of the caller's timeline are none that the extraction gives, so
\* the facts of a hit tell which timeline argument the entry was filled under.
C27_CacheHitSameTimeline ==
    (Returned /\ result.meta.cached /\ FocusModeNormalized = "timeline")
    => \A tl \in UserTimelines \ {<<>>} :
          (result.facts.timeline = UserTimelineEvents(tl)) <=> (tl = timeline)

\* C28: normalization of a MATCH card keeps what a pair links: a pair of two indices that
\* is among the pairs of the normalized card points there at the texts that it pointed at in
\* the left and right lists of the card as it was.  The normalized card is the one that
\* _normalize_card_structure gives, before the right texts are rewritten.
C28_MatchPairsKeepTheirTexts ==
    [][(pc = "payload" /\ pc' = "normalized")
       => \A i \in DOMAIN cards_payload :
             LET raw_card == cards_payload[i]
                 card == _normalize_card_structure(raw_card)
                 left == Get(raw_card, "left", <<>>)
                 right == Get(raw_card, "right", <<>>)
                 pairs == Get(raw_card, "pairs", <<>>)
             IN raw_card.type = "MATCH"
                => \A p \in DOMAIN pairs :
                      /\ Len(pairs[p]) = 2
                      /\ Range(PairKinds(raw_card)[p]) = {"int"}
                      /\ pairs[p][1] \in 0..(Len(left) - 1)
                      /\ pairs[p][2] \in 0..(Len(right) - 1)
                      /\ \E q \in DOMAIN card.pairs : card.pairs[q] = pairs[p]
                      => /\ card.left[pairs[p][1] + 1] = Strip(left[pairs[p][1] + 1])
                         /\ card.right[pairs[p][2] + 1] = Strip(right[pairs[p][2] + 1])]_vars

\* C29: every CLOZE card of a result that generate_cards returns has, for each placeholder
\* of its text, an answer in clozes that is not blank.
C29_ClozeAnswersNotBlank ==
    Returned
    => \A i \in DOMAIN result.cards :
          result.cards[i].type = "CLOZE"
          => \A n \in DOMAIN Placeholders(Get(result.cards[i], "text", <<>>)) :
                Strip(Get(Get(result.cards[i], "clozes", <<>>),
                          Placeholders(result.cards[i].text)[n], <<>>)) # <<>>

\* C30: a step of generate_cards changes the cache only when it returns a result that was
\* computed, and then the entry under the key of the invocation is that result, stored now,
\* with cards that validate_cards accepts, and no other entry has changed; a step that ends
\* the invocation in a failure leaves the cache as it was; every entry of the cache holds
\* cards that validate_cards accepts.
C30_CacheHoldsReturnedResults ==
    [][/\ cache' # cache
          => /\ pc' = "done" /\ result'.status = "ok" /\ ~result'.meta.cached
             /\ validate_cards(result'.cards) = <<>>
             /\ DOMAIN cache' = DOMAIN cache \cup {CacheKey}
             /\ cache'[CacheKey] = [stored_at |-> clock, payload |-> result']
             /\ \A k \in DOMAIN cache : k # CacheKey => cache'[k] = cache[k]
       /\ pc' \in {"failed", "crashed"} => cache' = cache
       /\ \A k \in DOMAIN cache' :
             /\ cache'[k].payload.status = "ok"
             /\ validate_cards(cache'[k].payload.cards) = <<>>]_vars

\* an invocation made with force_refresh has failed after the fix stage, and the entry that
\* an invocation before it stored is in the cache
C30_Witness ==
    /\ pc = "failed" /\ force_refresh /\ calls.fix = 1
    /\ CacheKey \in DOMAIN cache
    /\ result.status = "GenerationError"

\* what C22 says _safe_json_loads returns: the object that the text is; otherwise the object
\* that the first balanced {...} of the scanner is; otherwise the longest prefix ending in
\* "}" that is an object; otherwise the empty map
RecoveredObject(raw) ==
    IF IsObject(raw) THEN json_loads(raw)[1].members
    ELSE IF _extract_json_object(raw) # <<>> /\ IsObject(_extract_json_object(raw)[1])
    THEN json_loads(_extract_json_object(raw)[1])[1].members
    ELSE TruncatedTail(raw)

\* C22: for every text _safe_json_loads returns a map: the object that the text is,
\* otherwise the object in the first balanced top-level {...} that the brace scanner finds,
\* otherwise the longest prefix ending in "}" that is an object, otherwise the empty map.
C22_SafeJsonLoadsRecovers ==
    pc = "payload_read" => result.payload = RecoveredObject(content)

\* C23: the stages of an invocation are ordered and bounded: at most one extraction, at most
\* two generation calls (agenerate_one, then one fallback), at most one call of the fix
\* oracle; the fix oracle is called only when the validation failed, the local repair ran on
\* the payload and the validation of that payload still fails.
C23_StagesOrderedAndBounded ==
    /\ calls.extract <= 1 /\ calls.generate_one <= 1 /\ calls.generate_cards <= 1
    /\ calls.fix <= 1
    /\ calls.generate_cards = 1 => calls.generate_one = 1
    /\ GenerateCalls >= 1 => calls.extract = 1
    /\ calls.fix = 1 => (GenerateCalls >= 1 /\ calls.local_fixes >= 1)
    /\ pc = "fix" => /\ calls.fix = 0
                     /\ calls.local_fixes = 1
                     /\ errors # <<>>
                     /\ errors = validate_cards(cards_payload)

\* the fix oracle was called after both generation calls, and the invocation succeeded
C23_Witness == Returned /\ calls.fix = 1 /\ GenerateCalls = 2 /\ calls.local_fixes = 2

\* the requests that wrote the cache entry, and the one that wrote last
Writers == {p \in 1..MaxRequests : rl_proc[p].pc = "returned"}

LastWriter == CHOOSE p \in Writers : \A q \in Writers : rl_proc[q].writes_before <= rl_proc[p].writes_before

\* C24: requests with the same arguments that miss the cache each write the entry, without a
\* lock, and the write is atomic: a request that reads the cache meanwhile gets a miss or
\* the whole payload of one writer, and the key holds the whole record of the last writer.
C24_CacheWriteAtomic ==
    /\ \A p \in 1..MaxRequests :
          rl_proc[p].pc = "served"
          => \E q \in Writers : rl_proc[p].payload = rl_proc[q].payload
    /\ Writers # {}
       => /\ CacheKey \in DOMAIN cache
          /\ cache[CacheKey] = [stored_at |-> rl_proc[LastWriter].stored_at,
                                payload |-> rl_proc[LastWriter].payload]
    /\ Writers = {} => cache = <<>>

\* two requests missed and wrote different payloads, a third was served from the cache
C24_Witness ==
    /\ \E p, q \in Writers : rl_proc[p].payload # rl_proc[q].payload
    /\ \E p \in 1..MaxRequests : rl_proc[p].pc = "served"
    /\ \A p \in 1..MaxRequests : rl_proc[p].pc \in {"served", "returned"}

\* C25: validate_cards is a pure function: it leaves the payload and every card of it as
\* they are, and a second call on the payload returns the same errors.
C25_ValidateIsPure ==
    [][pc' = "validated" => /\ cards_payload' = cards_payload
                            /\ validate_cards(cards_payload') = errors']_vars

====
